---------------------------- MODULE Spec2Model ----------------------------
(***************************************************************************)
(* A model of the ceremony coordinator of phase1-coordinator:              *)
(* the facade operations of coordinator.rs over the storage, the round     *)
(* and the participant state.                                              *)
(*                                                                         *)
(* coordinator.rs is translated from its source.  The modules it calls     *)
(* (storage, objects::Round, coordinator_state::CoordinatorState) are      *)
(* modelled from the design document; those definitions say so.            *)
(***************************************************************************)
EXTENDS Integers, Sequences, FiniteSets, TLC

(***************************************************************************)
(* Environment (configuration) and the universe of the model.              *)
(***************************************************************************)
NumberOfChunks == 2
ContributorsPerRound == 2
VerifiersPerRound == 1
ContributorLockChunkLimit == 2
VerifierLockChunkLimit == 1

\* The highest round height the model lets try_advance reach.
MaxHeight == 2
\* The number of faults of the environment that a run of the model has.
MaxFaults == 1

Contributors == {"C1", "C2"}
Verifiers == {"V1", "V2"}
Participants == Contributors \cup Verifiers
None == "none"

Chunks == 0 .. (NumberOfChunks - 1)
Heights == 0 .. MaxHeight
ContributionIds == 0 .. ContributorsPerRound
Tasks == Chunks \X (1 .. ContributorsPerRound)

is_contributor(p) == p \in Contributors
is_verifier(p) == p \in Verifiers

\* A fixed order of the participants: the reliability order of the queue.
Rank(p) == CASE p = "C1" -> 0 [] p = "C2" -> 1 [] p = "V1" -> 2 [] OTHER -> 3

(***************************************************************************)
(* Files.  A file is empty, shorter than 64 bytes, or 64 bytes of header   *)
(* (a hash value) followed by a body that the model does not look at.      *)
(* calculate_hash maps a file to a hash value; the model keeps three hash  *)
(* values, and a file of at least 64 bytes is named by its header.         *)
(***************************************************************************)
HashValues == {"h0", "h1", "h2"}
NoFile == "nofile"
EmptyFile == "empty"
ShortFile == "short"
FileContents == HashValues \cup {EmptyFile, ShortFile}

calculate_hash(content) ==
    CASE content = "h0" -> "h1"
      [] content = "h1" -> "h2"
      [] content = "h2" -> "h0"
      [] content = EmptyFile -> "h0"
      [] OTHER -> "h1"

\* bytes.get(0..64): the header, when the file has 64 bytes.
Header64(content) == IF content \in HashValues THEN content ELSE None

\* bytes.chunks(64).next(): the first block of at most 64 bytes; there is
\* none for an empty file.
FirstBlock(content) == IF content = EmptyFile THEN None ELSE content

Locator(h, c, i, v) == <<h, c, i, v>>
NoLocator == <<>>
FileLocators == (0 .. (MaxHeight + 1)) \X Chunks \X ContributionIds \X BOOLEAN

(***************************************************************************)
(* Results.  An operation returns "ok" or the name of a CoordinatorError.  *)
(***************************************************************************)
OK == "ok"

(***************************************************************************)
(* objects::Round and objects::Chunk.                                      *)
(***************************************************************************)
NoRound == [exists |-> FALSE]

\* Contribution 0 of a chunk: written by the coordinator, verified.
InitialContribution(h, c) ==
    [contributor |-> None, verifier |-> None, verified |-> TRUE,
     uloc |-> NoLocator, vloc |-> Locator(h, c, 0, TRUE)]

NewChunk(h, c) == [lock_holder |-> None, contributions |-> <<InitialContribution(h, c)>>]

\* Round::new
NewRound(h, contributors, verifiers) ==
    [exists |-> TRUE, height |-> h, contributors |-> contributors,
     verifiers |-> verifiers, chunks |-> [c \in Chunks |-> NewChunk(h, c)]]

expected_number_of_contributions(round) == Cardinality(round.contributors) + 1

\* The cursor of a chunk: the id of its last contribution.
current_contribution_id(chunk) == Len(chunk.contributions) - 1

current_contribution(chunk) == chunk.contributions[Len(chunk.contributions)]

\* Every expected contribution of the chunk is there (verified or not).
only_contributions_complete(chunk, expected) == Len(chunk.contributions) = expected

chunk_is_complete(chunk, expected) ==
    /\ only_contributions_complete(chunk, expected)
    /\ \A k \in 1 .. Len(chunk.contributions) : chunk.contributions[k].verified

round_is_complete(round) ==
    \A c \in Chunks : chunk_is_complete(round.chunks[c], expected_number_of_contributions(round))

round_is_contributor(round, p) == p \in round.contributors
round_is_verifier(round, p) == p \in round.verifiers

is_chunk_locked_by(round, c, p) ==
    /\ c \in Chunks
    /\ round.chunks[c].lock_holder = p

number_of_locks_held(round, p) ==
    Cardinality({c \in Chunks : round.chunks[c].lock_holder = p})

NumberOfVerified(chunk) ==
    Cardinality({k \in 1 .. Len(chunk.contributions) : chunk.contributions[k].verified})

\* Round::try_lock_chunk: [err, round, out], out the locator the participant
\* is to write (the response for a contributor, the next challenge for a
\* verifier).
VerifiedLocatorOf(round, c, i) ==
    IF i = expected_number_of_contributions(round) - 1
    THEN Locator(round.height + 1, c, 0, TRUE)
    ELSE Locator(round.height, c, i, TRUE)

RoundLockError(round, c, p) ==
    IF c \notin Chunks THEN "ChunkIdInvalid"
    ELSE IF is_contributor(p) /\ ~round_is_contributor(round, p) THEN "UnauthorizedChunkContributor"
    ELSE IF is_verifier(p) /\ ~round_is_verifier(round, p) THEN "UnauthorizedChunkVerifier"
    ELSE IF is_contributor(p) /\ number_of_locks_held(round, p) >= ContributorLockChunkLimit
         THEN "ChunkLockLimitReached"
    ELSE IF is_verifier(p) /\ number_of_locks_held(round, p) >= VerifierLockChunkLimit
         THEN "ChunkLockLimitReached"
    ELSE IF round.chunks[c].lock_holder # None THEN "ChunkLockAlreadyAcquired"
    ELSE IF is_contributor(p) /\ ~current_contribution(round.chunks[c]).verified
         THEN "ChunkMissingVerification"
    ELSE IF is_contributor(p)
            /\ only_contributions_complete(round.chunks[c], expected_number_of_contributions(round))
         THEN "ContributionsComplete"
    ELSE IF is_verifier(p) /\ current_contribution(round.chunks[c]).verified
         THEN "ChunkAlreadyVerified"
    ELSE OK

RoundTryLockChunk(round, c, p) ==
    LET err == RoundLockError(round, c, p) IN
    IF err # OK THEN [err |-> err, round |-> round, out |-> NoLocator]
    ELSE [err |-> OK,
          round |-> [round EXCEPT !.chunks[c].lock_holder = p],
          out |-> IF is_contributor(p)
                  THEN Locator(round.height, c, current_contribution_id(round.chunks[c]) + 1, FALSE)
                  ELSE VerifiedLocatorOf(round, c, current_contribution_id(round.chunks[c]))]

\* Chunk::next_contribution_id: [err, id]
next_contribution_id(chunk, expected) ==
    IF ~current_contribution(chunk).verified
    THEN [err |-> "ContributionMissingVerification", id |-> 0]
    ELSE IF only_contributions_complete(chunk, expected)
    THEN [err |-> "ContributionsComplete", id |-> 0]
    ELSE [err |-> OK, id |-> current_contribution_id(chunk) + 1]

is_next_contribution_id(chunk, i, expected) ==
    /\ i = current_contribution_id(chunk) + 1
    /\ i < expected

\* Chunk::add_contribution: the contribution is appended unverified and the
\* lock is released.
chunk_add_contribution(chunk, i, p, uloc) ==
    [lock_holder |-> None,
     contributions |-> Append(chunk.contributions,
        [contributor |-> p, verifier |-> None, verified |-> FALSE,
         uloc |-> uloc, vloc |-> NoLocator])]

\* Round::verify_contribution: [err, round]; the current contribution gets
\* its verifier and its verified locator and the lock is released.
round_verify_contribution(round, c, i, p, vloc) ==
    LET chunk == round.chunks[c] IN
    IF i # current_contribution_id(chunk) \/ i = 0
    THEN [err |-> "ContributionMissing", round |-> round]
    ELSE IF chunk.contributions[i + 1].verified
    THEN [err |-> "ContributionAlreadyVerified", round |-> round]
    ELSE [err |-> OK,
          round |-> [round EXCEPT
             !.chunks[c].lock_holder = None,
             !.chunks[c].contributions[i + 1] =
                 [@ EXCEPT !.verifier = p, !.verified = TRUE, !.vloc = vloc]]]

(***************************************************************************)
(* coordinator_state::CoordinatorState.                                    *)
(***************************************************************************)
EmptyInfo ==
    [assigned |-> {}, pending |-> {}, completed |-> {}, disposing |-> {},
     disposed |-> {}, locked |-> {}]

\* The state of a coordinator that has run no round yet.
NewCoordinatorState ==
    [height |-> 0, queue |-> {}, precommit |-> {}, current |-> {},
     finished |-> {}, dropped |-> {}, banned |-> {},
     info |-> [p \in Participants |-> EmptyInfo], aggregation |-> "no"]

state_is_current_contributor(st, p) == is_contributor(p) /\ p \in st.current
state_is_current_verifier(st, p) == is_verifier(p) /\ p \in st.current

CurrentContributors(st) == st.current \cap Contributors
CurrentVerifiers(st) == st.current \cap Verifiers

\* The lowest of a set of tasks: lowest chunk_id, then lowest contribution_id.
LowestTask(S) ==
    CHOOSE t \in S : \A u \in S : t[1] < u[1] \/ (t[1] = u[1] /\ t[2] <= u[2])

\* The lowest-ranked participant of a non-empty set.
First(S) == CHOOSE p \in S : \A q \in S : Rank(p) <= Rank(q)

\* The k highest-ranked participants of S.
RECURSIVE Top(_, _)
Top(S, k) == IF k = 0 \/ S = {} THEN {} ELSE {First(S)} \cup Top(S \ {First(S)}, k - 1)

\* The place of contributor p in a roster, from 0.
Position(roster, p) == Cardinality({q \in roster : Rank(q) < Rank(p)})

\* The tasks of a round: every contributor contributes once to every chunk,
\* and the contributors start at different contribution ids.
InitialTasks(roster, p) ==
    LET n == Cardinality(roster \cap Contributors) IN
    IF is_contributor(p)
    THEN {<<c, ((c + n - Position(roster \cap Contributors, p)) % n) + 1>> : c \in Chunks}
    ELSE {}

\* add_to_queue: [err, st]
state_add_to_queue(st, p) ==
    IF p \in st.banned THEN [err |-> "ParticipantBanned", st |-> st]
    ELSE IF p \in st.dropped THEN [err |-> "ParticipantWasDropped", st |-> st]
    ELSE IF p \in st.queue THEN [err |-> "ParticipantAlreadyAdded", st |-> st]
    ELSE IF p \in st.current \cup st.finished
    THEN [err |-> "ParticipantInCurrentRoundCannotJoinQueue", st |-> st]
    ELSE [err |-> OK, st |-> [st EXCEPT !.queue = @ \cup {p}]]

\* A task given to participant q: it is in the assigned bucket of q and in
\* no other bucket of q.
assign_task(st, q, t) ==
    [st EXCEPT !.info[q] =
        [assigned |-> @.assigned \cup {t}, pending |-> @.pending \ {t},
         completed |-> @.completed \ {t}, disposing |-> @.disposing \ {t},
         disposed |-> @.disposed \ {t}, locked |-> @.locked]]

RECURSIVE assign_tasks(_, _, _)
assign_tasks(st, q, S) ==
    IF S = {} THEN st
    ELSE LET t == LowestTask(S) IN assign_tasks(assign_task(st, q, t), q, S \ {t})

\* fetch_task: [err, st, task]
fetch_task(st, p) ==
    IF p \notin st.current THEN [err |-> "ParticipantNotFound", st |-> st, task |-> <<0, 0>>]
    ELSE IF st.info[p].assigned = {}
    THEN [err |-> "ParticipantHasNoRemainingTasks", st |-> st, task |-> <<0, 0>>]
    ELSE LET t == LowestTask(st.info[p].assigned) IN
         [err |-> OK, task |-> t,
          st |-> [st EXCEPT !.info[p].assigned = @ \ {t}, !.info[p].pending = @ \cup {t}]]

\* acquired_lock: [err, st]
acquired_lock(st, p, c) ==
    IF c \in st.info[p].locked THEN [err |-> "ParticipantAlreadyHasLockedChunk", st |-> st]
    ELSE [err |-> OK, st |-> [st EXCEPT !.info[p].locked = @ \cup {c}]]

\* rollback_pending_task: [err, st]
rollback_pending_task(st, p, c, i) ==
    IF <<c, i>> \notin st.info[p].pending
    THEN [err |-> "ParticipantMissingPendingTask", st |-> st]
    ELSE [err |-> OK,
          st |-> [st EXCEPT !.info[p].pending = @ \ {<<c, i>>},
                            !.info[p].assigned = @ \cup {<<c, i>>}]]

NoTask == <<>>

\* lookup_disposing_task, lookup_pending_task: the task of p on chunk c in
\* the bucket, or none.
lookup_disposing_task(st, p, c) ==
    LET S == {t \in st.info[p].disposing : t[1] = c} IN
    IF S = {} THEN NoTask ELSE LowestTask(S)

lookup_pending_task(st, p, c) ==
    LET S == {t \in st.info[p].pending : t[1] = c} IN
    IF S = {} THEN NoTask ELSE LowestTask(S)

\* disposed_task: [err, st]
disposed_task(st, p, c, i) ==
    IF <<c, i>> \notin st.info[p].disposing
    THEN [err |-> "ParticipantMissingDisposingTask", st |-> st]
    ELSE [err |-> OK,
          st |-> [st EXCEPT !.info[p].disposing = @ \ {<<c, i>>},
                            !.info[p].disposed = @ \cup {<<c, i>>}]]

\* completed_task: [err, st].  The task moves from pending to completed and
\* the participant no longer holds the chunk; the contribution of a
\* contributor becomes a task of a verifier of the round.
completed_task(st, p, c, i) ==
    IF <<c, i>> \notin st.info[p].pending
    THEN [err |-> "ParticipantMissingPendingTask", st |-> st]
    ELSE LET done == [st EXCEPT !.info[p].pending = @ \ {<<c, i>>},
                                !.info[p].completed = @ \cup {<<c, i>>},
                                !.info[p].locked = @ \ {c}] IN
         [err |-> OK,
          st |-> IF is_contributor(p) /\ CurrentVerifiers(st) # {}
                 THEN assign_task(done, First(CurrentVerifiers(st)), <<c, i>>)
                 ELSE done]

\* The tasks that a contributor completed and no verifier has verified yet:
\* they are still assigned to or pending at a verifier of the round.
UnverifiedTasksOf(st, p) ==
    IF is_contributor(p)
    THEN {t \in st.info[p].completed :
            \E v \in CurrentVerifiers(st) : t \in st.info[v].assigned \cup st.info[v].pending}
    ELSE {}

\* Dropping a participant of the current round.  The justification carries
\* the chunks to unlock and the tasks that the participant will not finish;
\* a verifier at work on a contribution that is taken back has to dispose
\* of it; the tasks go to another participant of the round with the same
\* role, if there is one.
Justification(kind, p, locked_chunks, tasks) ==
    [kind |-> kind, participant |-> p, locked_chunks |-> locked_chunks, tasks |-> tasks]

DropCurrent(st, p, kind) ==
    LET undone == UnverifiedTasksOf(st, p)
        tasks == st.info[p].assigned \cup st.info[p].pending \cup undone
        chunks == st.info[p].locked \cup {t[1] : t \in undone}
        others == {q \in st.current \ {p} : is_contributor(q) = is_contributor(p)}
        removed == [st EXCEPT
            !.current = @ \ {p},
            !.dropped = @ \cup {p},
            !.info = [q \in Participants |->
                IF q = p THEN EmptyInfo
                ELSE IF is_verifier(q) /\ q \in st.current
                THEN [@[q] EXCEPT
                        !.assigned = @ \ undone,
                        !.pending = @ \ undone,
                        !.disposing = @ \cup (st.info[q].pending \cap undone),
                        !.locked = @ \ {t[1] : t \in st.info[q].pending \cap undone}]
                ELSE @[q]]] IN
    [err |-> OK,
     st |-> IF others = {} THEN removed ELSE assign_tasks(removed, First(others), tasks),
     justification |-> Justification(kind, p, chunks, tasks)]

\* drop_participant: [err, st, justification]
state_drop_participant(st, p) ==
    IF p \in st.current THEN DropCurrent(st, p, "DropCurrent")
    ELSE IF p \in st.queue
    THEN [err |-> OK, st |-> [st EXCEPT !.queue = @ \ {p}],
          justification |-> Justification("DropQueue", p, {}, {})]
    ELSE IF p \in st.dropped
    THEN [err |-> "ParticipantAlreadyDropped", st |-> st,
          justification |-> Justification("Inactive", p, {}, {})]
    ELSE IF p \in st.finished
    THEN [err |-> "ParticipantAlreadyFinished", st |-> st,
          justification |-> Justification("Inactive", p, {}, {})]
    ELSE [err |-> "ParticipantNotFound", st |-> st,
          justification |-> Justification("Inactive", p, {}, {})]

\* ban_participant: a drop that also puts the participant in banned.
state_ban_participant(st, p) ==
    IF p \in st.banned
    THEN [err |-> "ParticipantAlreadyBanned", st |-> st,
          justification |-> Justification("Inactive", p, {}, {})]
    ELSE IF p \in st.current
    THEN LET d == DropCurrent(st, p, "BanCurrent") IN
         [d EXCEPT !.st = [@ EXCEPT !.banned = @ \cup {p}]]
    ELSE IF p \in st.queue
    THEN [err |-> OK, st |-> [st EXCEPT !.queue = @ \ {p}, !.banned = @ \cup {p}],
          justification |-> Justification("BanQueue", p, {}, {})]
    ELSE [err |-> "ParticipantNotFound", st |-> st,
          justification |-> Justification("Inactive", p, {}, {})]

\* unban_participant
state_unban_participant(st, p) == [st EXCEPT !.banned = @ \ {p}, !.dropped = @ \ {p}]

\* update_current_contributors: the contributors with no task left are
\* finished.
state_update_current_contributors(st) ==
    LET done == {p \in CurrentContributors(st) :
                    st.info[p].assigned = {} /\ st.info[p].pending = {}} IN
    [st EXCEPT !.current = @ \ done, !.finished = @ \cup done]

\* update_current_verifiers: once no contributor is at work, the verifiers
\* with no task left are finished.
state_update_current_verifiers(st) ==
    LET done == {p \in CurrentVerifiers(st) :
                    /\ CurrentContributors(st) = {}
                    /\ st.info[p].assigned = {} /\ st.info[p].pending = {}} IN
    [st EXCEPT !.current = @ \ done, !.finished = @ \cup done]

\* update_dropped_participants: [st, justifications], for the participants
\* of the round that timed out, in the order of their rank.
RECURSIVE state_update_dropped_participants(_, _)
state_update_dropped_participants(st, timed_out) ==
    LET S == timed_out \cap st.current IN
    IF S = {} THEN [st |-> st, justifications |-> <<>>]
    ELSE LET d == DropCurrent(st, First(S), "DropCurrent")
             rest == state_update_dropped_participants(d.st, S \ {First(S)}) IN
         [st |-> rest.st, justifications |-> <<d.justification>> \o rest.justifications]

is_current_round_finished(st) == st.current = {} /\ st.finished # {}

is_current_round_aggregated(st) == st.aggregation = "yes"

is_precommit_next_round_ready(st) ==
    st.queue \cap Contributors # {} /\ st.queue \cap Verifiers # {}

\* aggregating_current_round, aggregated_current_round: [err, st]
aggregating_current_round(st) ==
    IF st.aggregation = "yes" THEN [err |-> "RoundAlreadyAggregated", st |-> st]
    ELSE IF st.aggregation = "aggregating" THEN [err |-> "RoundAggregationFailed", st |-> st]
    ELSE [err |-> OK, st |-> [st EXCEPT !.aggregation = "aggregating"]]

aggregated_current_round(st) ==
    IF st.aggregation # "aggregating" THEN [err |-> "RoundAggregationFailed", st |-> st]
    ELSE [err |-> OK, st |-> [st EXCEPT !.aggregation = "yes"]]

\* precommit_next_round: [err, st, contributors, verifiers]
precommit_next_round(st, next_round_height) ==
    LET contributors == Top(st.queue \cap Contributors, ContributorsPerRound)
        verifiers == Top(st.queue \cap Verifiers, VerifiersPerRound)
        fail(e) == [err |-> e, st |-> st, contributors |-> {}, verifiers |-> {}] IN
    IF next_round_height # st.height + 1 THEN fail("RoundHeightMismatch")
    ELSE IF st.precommit # {} THEN fail("NextRoundAlreadyInPrecommit")
    ELSE IF st.height # 0 /\ ~is_current_round_finished(st) THEN fail("RoundNotComplete")
    ELSE IF st.height # 0 /\ ~is_current_round_aggregated(st) THEN fail("RoundNotAggregated")
    ELSE IF contributors = {} THEN fail("ContributorsMissing")
    ELSE IF verifiers = {} THEN fail("VerifiersMissing")
    ELSE [err |-> OK, st |-> [st EXCEPT !.precommit = contributors \cup verifiers],
          contributors |-> contributors, verifiers |-> verifiers]

commit_next_round(st) ==
    [st EXCEPT
        !.height = @ + 1,
        !.queue = @ \ st.precommit,
        !.precommit = {},
        !.current = st.precommit,
        !.finished = {},
        !.aggregation = "no",
        !.info = [p \in Participants |->
            IF p \in st.precommit
            THEN [EmptyInfo EXCEPT !.assigned = InitialTasks(st.precommit, p)]
            ELSE EmptyInfo]]

rollback_next_round(st) == [st EXCEPT !.precommit = {}]

(***************************************************************************)
(* storage.  One RoundHeight, a RoundState and a RoundFile per height, the *)
(* contribution files, and the saved CoordinatorState.                     *)
(***************************************************************************)
NewStorage ==
    [height |-> 0,
     rounds |-> [h \in Heights |-> NoRound],
     round_files |-> {},
     files |-> [l \in FileLocators |-> NoFile],
     saved |-> NewCoordinatorState]

storage_exists_round(storage, h) == h \in Heights /\ storage.rounds[h].exists

storage_exists_file(storage, l) == l \in FileLocators /\ storage.files[l] # NoFile

\* storage.update(RoundState(h), round): [err, storage]
storage_update_round(storage, h, round) ==
    IF ~storage_exists_round(storage, h) THEN [err |-> "StorageLocatorMissing", storage |-> storage]
    ELSE [err |-> OK, storage |-> [storage EXCEPT !.rounds[h] = round]]

\* storage.insert(RoundState(h), round): [err, storage]
storage_insert_round(storage, h, round) ==
    IF storage_exists_round(storage, h)
    THEN [err |-> "StorageLocatorAlreadyExists", storage |-> storage]
    ELSE [err |-> OK, storage |-> [storage EXCEPT !.rounds[h] = round]]

\* storage.remove(ContributionFile): no error on an absent file.
storage_remove_file(storage, l) ==
    IF l \in FileLocators THEN [storage EXCEPT !.files[l] = NoFile] ELSE storage

\* storage.reader(ContributionFile): [err, content]
storage_reader(storage, l) ==
    IF storage_exists_file(storage, l) THEN [err |-> OK, content |-> storage.files[l]]
    ELSE [err |-> "StorageLocatorMissing", content |-> NoFile]

\* CoordinatorState::save
state_save(st, storage) == [storage EXCEPT !.saved = st]

load_current_round_height(storage) == [err |-> OK, height |-> storage.height]

load_round(storage, round_height) ==
    LET current_round_height == load_current_round_height(storage).height IN
    IF current_round_height # 0 /\ round_height <= current_round_height
    THEN IF storage_exists_round(storage, round_height)
         THEN [err |-> OK, round |-> storage.rounds[round_height]]
         ELSE [err |-> "StorageFailed", round |-> NoRound]
    ELSE [err |-> "RoundDoesNotExist", round |-> NoRound]

load_current_round(storage) == load_round(storage, load_current_round_height(storage).height)

\* Coordinator::current_round_height: [err, height]
current_round_height(storage) ==
    LET h == load_current_round_height(storage).height IN
    IF h # 0
    THEN IF storage_exists_round(storage, h) THEN [err |-> OK, height |-> h]
         ELSE [err |-> "StorageFailed", height |-> 0]
    ELSE [err |-> OK, height |-> 0]

(***************************************************************************)
(* Coordinator: the operations on the round in storage.                    *)
(***************************************************************************)
\* try_lock_chunk as it would be if it wrote the participant as the holder
\* of the chunk without asking the round.
try_lock_chunk_without_check(storage, chunk_id, participant) ==
    IF chunk_id \notin Chunks \/ ~storage_exists_round(storage, storage.height)
    THEN [err |-> "ChunkIdInvalid", storage |-> storage, out |-> NoLocator]
    ELSE [err |-> OK,
          storage |-> [storage EXCEPT !.rounds[storage.height].chunks[chunk_id].lock_holder =
                                          participant],
          out |-> NoLocator]

\* try_lock_chunk as it would be if it did not compare the chunk id with
\* the number of chunks before it loads the round.
try_lock_chunk_without_id_check(storage, chunk_id, participant) ==
    LET h == load_current_round_height(storage).height
        r == load_current_round(storage) IN
    IF r.err # OK THEN [err |-> r.err, storage |-> storage, out |-> NoLocator]
    ELSE
    LET l == RoundTryLockChunk(r.round, chunk_id, participant) IN
    IF l.err # OK THEN [err |-> l.err, storage |-> storage, out |-> NoLocator]
    ELSE
    LET u == storage_update_round(storage, h, l.round) IN
    IF u.err # OK THEN [err |-> "StorageUpdateFailed", storage |-> storage, out |-> NoLocator]
    ELSE [err |-> OK, storage |-> u.storage, out |-> l.out]

\* try_lock_chunk as it would be if it wrote the round with the new lock at
\* the height of the first round instead of the current height.
try_lock_chunk_writes_first_round(storage, chunk_id, participant) ==
    IF chunk_id > NumberOfChunks
    THEN [err |-> "ChunkIdInvalid", storage |-> storage, out |-> NoLocator]
    ELSE
    LET r == load_current_round(storage) IN
    IF r.err # OK THEN [err |-> r.err, storage |-> storage, out |-> NoLocator]
    ELSE
    LET l == RoundTryLockChunk(r.round, chunk_id, participant) IN
    IF l.err # OK THEN [err |-> l.err, storage |-> storage, out |-> NoLocator]
    ELSE
    LET u == storage_update_round(storage, 1, l.round) IN
    IF u.err # OK THEN [err |-> "StorageUpdateFailed", storage |-> storage, out |-> NoLocator]
    ELSE [err |-> OK, storage |-> u.storage, out |-> l.out]

\* Coordinator::try_lock_chunk: [err, storage, out]
try_lock_chunk(storage, chunk_id, participant) ==
    IF chunk_id > NumberOfChunks
    THEN [err |-> "ChunkIdInvalid", storage |-> storage, out |-> NoLocator]
    ELSE
    LET h == load_current_round_height(storage).height
        r == load_current_round(storage) IN
    IF r.err # OK THEN [err |-> r.err, storage |-> storage, out |-> NoLocator]
    ELSE
    LET l == RoundTryLockChunk(r.round, chunk_id, participant) IN
    IF l.err # OK THEN [err |-> l.err, storage |-> storage, out |-> NoLocator]
    ELSE
    LET u == storage_update_round(storage, h, l.round) IN
    IF u.err # OK THEN [err |-> "StorageUpdateFailed", storage |-> storage, out |-> NoLocator]
    ELSE [err |-> OK, storage |-> u.storage, out |-> l.out]

\* The checks of add_contribution, in the order of the code; they read the
\* round and the two files and change nothing.
AddContributionError(storage, round, h, chunk_id, participant) ==
    IF ~round_is_contributor(round, participant) THEN "UnauthorizedChunkContributor"
    ELSE IF ~is_chunk_locked_by(round, chunk_id, participant)
    THEN "ChunkNotLockedOrByWrongParticipant"
    ELSE
    LET expected == expected_number_of_contributions(round)
        chunk == round.chunks[chunk_id]
        n == next_contribution_id(chunk, expected) IN
    IF n.err # OK THEN n.err
    ELSE IF ~is_next_contribution_id(chunk, n.id, expected) THEN "ContributionIdMismatch"
    ELSE
    LET challenge == storage_reader(storage, Locator(h, chunk_id, current_contribution_id(chunk), TRUE))
        response == storage_reader(storage, Locator(h, chunk_id, n.id, FALSE)) IN
    IF challenge.err # OK THEN challenge.err
    ELSE IF response.err # OK THEN response.err
    ELSE IF Header64(response.content) = None THEN "StorageReaderFailed"
    ELSE IF Header64(response.content) # calculate_hash(challenge.content)
    THEN "ContributionHashMismatch"
    ELSE OK

\* add_contribution as it would be if it appended the contribution without
\* its checks on the lock and on the chunk.
add_contribution_without_checks(storage, chunk_id, participant) ==
    LET h == load_current_round_height(storage).height
        r == load_current_round(storage) IN
    IF r.err # OK \/ chunk_id \notin Chunks
    THEN [err |-> "RoundDoesNotExist", storage |-> storage, locator |-> NoLocator, id |-> 0]
    ELSE
    LET id == current_contribution_id(r.round.chunks[chunk_id]) + 1 IN
    [err |-> OK,
     storage |-> [storage EXCEPT !.rounds[h].chunks[chunk_id] =
                     chunk_add_contribution(@, id, participant, Locator(h, chunk_id, id, FALSE))],
     locator |-> Locator(h, chunk_id, id, FALSE), id |-> id]

\* Coordinator::add_contribution: [err, storage, locator, id]
add_contribution(storage, chunk_id, participant) ==
    LET h == load_current_round_height(storage).height
        r == load_current_round(storage)
        fail(e) == [err |-> e, storage |-> storage, locator |-> NoLocator, id |-> 0] IN
    IF r.err # OK THEN fail(r.err)
    ELSE
    LET e == AddContributionError(storage, r.round, h, chunk_id, participant) IN
    IF e # OK THEN fail(e)
    ELSE
    LET id == current_contribution_id(r.round.chunks[chunk_id]) + 1
        loc == Locator(h, chunk_id, id, FALSE)
        round == [r.round EXCEPT !.chunks[chunk_id] =
                     chunk_add_contribution(@, id, participant, loc)]
        u == storage_update_round(storage, h, round) IN
    IF u.err # OK THEN fail("StorageUpdateFailed")
    ELSE [err |-> OK, storage |-> u.storage, locator |-> loc, id |-> id]

\* The next challenge locator as it would be if verify_contribution placed
\* the verified output of every contribution, the final one included, in
\* the current round.
NextChallengeInCurrentRound(round, h, chunk_id) ==
    Locator(h, chunk_id, current_contribution_id(round.chunks[chunk_id]), TRUE)

\* The locator of the next challenge that verifying the current contribution
\* of the chunk writes.
NextChallengeOf(round, h, chunk_id) ==
    IF only_contributions_complete(round.chunks[chunk_id], expected_number_of_contributions(round))
    THEN Locator(h + 1, chunk_id, 0, TRUE)
    ELSE Locator(h, chunk_id, current_contribution_id(round.chunks[chunk_id]), TRUE)

\* The checks of verify_contribution, in the order of the code.  An empty
\* next challenge file has no first block: the unwrap panics.
VerifyContributionError(storage, round, h, chunk_id, participant) ==
    IF ~round_is_verifier(round, participant) THEN "UnauthorizedChunkContributor"
    ELSE IF ~is_chunk_locked_by(round, chunk_id, participant)
    THEN "ChunkNotLockedOrByWrongParticipant"
    ELSE
    LET chunk == round.chunks[chunk_id]
        response == storage_reader(storage, Locator(h, chunk_id, current_contribution_id(chunk), FALSE))
        next == storage_reader(storage, NextChallengeOf(round, h, chunk_id)) IN
    IF response.err # OK THEN response.err
    ELSE IF next.err # OK THEN next.err
    ELSE IF FirstBlock(next.content) = None THEN "panic"
    ELSE IF calculate_hash(response.content) # FirstBlock(next.content)
    THEN "ContributionHashMismatch"
    ELSE OK

\* verify_contribution as it would be if recording the verification released
\* the lock of every chunk of the round.
verify_contribution_releases_all_locks(storage, chunk_id, participant) ==
    LET h == load_current_round_height(storage).height
        r == load_current_round(storage)
        fail(e) == [err |-> e, storage |-> storage, id |-> 0] IN
    IF r.err # OK THEN fail(r.err)
    ELSE
    LET e == VerifyContributionError(storage, r.round, h, chunk_id, participant) IN
    IF e # OK THEN fail(e)
    ELSE
    LET id == current_contribution_id(r.round.chunks[chunk_id])
        v == round_verify_contribution(r.round, chunk_id, id, participant,
                                       NextChallengeOf(r.round, h, chunk_id)) IN
    IF v.err # OK THEN fail(v.err)
    ELSE
    LET released == [v.round EXCEPT !.chunks =
                        [c \in Chunks |-> [@[c] EXCEPT !.lock_holder = None]]]
        u == storage_update_round(storage, h, released) IN
    IF u.err # OK THEN fail("StorageUpdateFailed")
    ELSE [err |-> OK, storage |-> u.storage, id |-> id]

\* Coordinator::verify_contribution: [err, storage, id]
verify_contribution(storage, chunk_id, participant) ==
    LET h == load_current_round_height(storage).height
        r == load_current_round(storage)
        fail(e) == [err |-> e, storage |-> storage, id |-> 0] IN
    IF r.err # OK THEN fail(r.err)
    ELSE
    LET e == VerifyContributionError(storage, r.round, h, chunk_id, participant) IN
    IF e # OK THEN fail(e)
    ELSE
    LET id == current_contribution_id(r.round.chunks[chunk_id])
        v == round_verify_contribution(r.round, chunk_id, id, participant,
                                       NextChallengeOf(r.round, h, chunk_id)) IN
    IF v.err # OK THEN fail(v.err)
    ELSE
    LET u == storage_update_round(storage, h, v.round) IN
    IF u.err # OK THEN fail("StorageUpdateFailed")
    ELSE [err |-> OK, storage |-> u.storage, id |-> id]

(***************************************************************************)
(* Coordinator: the operations of the facade.  Each takes the storage and  *)
(* the in-memory CoordinatorState and returns them with its result.        *)
(***************************************************************************)
Result(e, storage, st) == [err |-> e, storage |-> storage, st |-> st]

\* try_lock as it would be if, when the lock step fails, it kept the state
\* in which the task is pending.
try_lock_without_rollback(storage, st, participant) ==
    IF ~state_is_current_contributor(st, participant) /\ ~state_is_current_verifier(st, participant)
    THEN Result("ParticipantUnauthorized", storage, st)
    ELSE
    LET f == fetch_task(st, participant) IN
    IF f.err # OK THEN Result(f.err, storage, st)
    ELSE
    LET l == try_lock_chunk(storage, f.task[1], participant) IN
    IF l.err = OK
    THEN LET a == acquired_lock(f.st, participant, f.task[1]) IN
         IF a.err # OK THEN Result(a.err, l.storage, a.st)
         ELSE Result(OK, state_save(a.st, l.storage), a.st)
    ELSE Result(l.err, state_save(f.st, l.storage), f.st)

\* try_lock as it would be if, when the lock step fails, it put the task in
\* assigned again and left it in pending.
try_lock_keeps_pending(storage, st, participant) ==
    IF ~state_is_current_contributor(st, participant) /\ ~state_is_current_verifier(st, participant)
    THEN Result("ParticipantUnauthorized", storage, st)
    ELSE
    LET f == fetch_task(st, participant) IN
    IF f.err # OK THEN Result(f.err, storage, st)
    ELSE
    LET l == try_lock_chunk(storage, f.task[1], participant) IN
    IF l.err = OK
    THEN LET a == acquired_lock(f.st, participant, f.task[1]) IN
         IF a.err # OK THEN Result(a.err, l.storage, a.st)
         ELSE Result(OK, state_save(a.st, l.storage), a.st)
    ELSE Result(l.err,
                state_save([f.st EXCEPT !.info[participant].assigned = @ \cup {f.task}], l.storage),
                [f.st EXCEPT !.info[participant].assigned = @ \cup {f.task}])

\* try_lock as it would be if it gave the task to the caller whatever the
\* lock step returned.
try_lock_ignores_lock_error(storage, st, participant) ==
    IF ~state_is_current_contributor(st, participant) /\ ~state_is_current_verifier(st, participant)
    THEN Result("ParticipantUnauthorized", storage, st)
    ELSE
    LET f == fetch_task(st, participant) IN
    IF f.err # OK THEN Result(f.err, storage, st)
    ELSE
    LET l == try_lock_chunk(storage, f.task[1], participant)
        a == acquired_lock(f.st, participant, f.task[1]) IN
    IF a.err # OK THEN Result(a.err, l.storage, a.st)
    ELSE Result(OK, state_save(a.st, l.storage), a.st)

\* try_lock as it would be if it did not check that the participant is in
\* the current round.
try_lock_without_authorization(storage, st, participant) ==
    LET f == fetch_task(st, participant) IN
    IF f.err # OK THEN Result(f.err, storage, st)
    ELSE
    LET l == try_lock_chunk(storage, f.task[1], participant) IN
    IF l.err = OK
    THEN LET a == acquired_lock(f.st, participant, f.task[1]) IN
         IF a.err # OK THEN Result(a.err, l.storage, a.st)
         ELSE Result(OK, state_save(a.st, l.storage), a.st)
    ELSE LET b == rollback_pending_task(f.st, participant, f.task[1], f.task[2]) IN
         IF b.err # OK THEN Result(b.err, l.storage, b.st)
         ELSE Result(l.err, state_save(b.st, l.storage), b.st)

\* Coordinator::try_lock
try_lock(storage, st, participant) ==
    IF ~state_is_current_contributor(st, participant) /\ ~state_is_current_verifier(st, participant)
    THEN Result("ParticipantUnauthorized", storage, st)
    ELSE
    LET f == fetch_task(st, participant) IN
    IF f.err # OK THEN Result(f.err, storage, st)
    ELSE
    LET chunk_id == f.task[1]
        contribution_id == f.task[2]
        l == try_lock_chunk(storage, chunk_id, participant) IN
    IF l.err = OK
    THEN LET a == acquired_lock(f.st, participant, chunk_id) IN
         IF a.err # OK THEN Result(a.err, l.storage, a.st)
         ELSE Result(OK, state_save(a.st, l.storage), a.st)
    ELSE LET b == rollback_pending_task(f.st, participant, chunk_id, contribution_id) IN
         IF b.err # OK THEN Result(b.err, l.storage, b.st)
         ELSE Result(l.err, state_save(b.st, l.storage), b.st)

\* try_contribute as it would be if it left the task of an added
\* contribution in the pending bucket.
try_contribute_keeps_pending(storage, st, participant, chunk_id) ==
    IF ~is_contributor(participant) THEN Result("ExpectedContributor", storage, st)
    ELSE IF chunk_id > NumberOfChunks THEN Result("ChunkIdInvalid", storage, st)
    ELSE IF ~state_is_current_contributor(st, participant)
    THEN Result("ParticipantUnauthorized", storage, st)
    ELSE
    LET round_height == load_current_round_height(storage).height
        pending == lookup_pending_task(st, participant, chunk_id) IN
    IF pending # NoTask
    THEN LET a == add_contribution(storage, chunk_id, participant) IN
         IF a.err = OK
         THEN Result(OK, state_save(st, a.storage), st)
         ELSE Result(a.err,
                     storage_remove_file(a.storage, Locator(round_height, chunk_id, pending[2], FALSE)),
                     st)
    ELSE Result("ContributionFailed", storage, st)

\* try_contribute as it would be if disposing of a task left the response
\* file in storage.
try_contribute_disposes_without_remove(storage, st, participant, chunk_id) ==
    IF ~is_contributor(participant) THEN Result("ExpectedContributor", storage, st)
    ELSE IF chunk_id > NumberOfChunks THEN Result("ChunkIdInvalid", storage, st)
    ELSE IF ~state_is_current_contributor(st, participant)
    THEN Result("ParticipantUnauthorized", storage, st)
    ELSE
    LET round_height == load_current_round_height(storage).height
        disposing == lookup_disposing_task(st, participant, chunk_id)
        pending == lookup_pending_task(st, participant, chunk_id) IN
    IF disposing # NoTask
    THEN LET d == disposed_task(st, participant, chunk_id, disposing[2]) IN
         IF d.err # OK THEN Result(d.err, storage, d.st)
         ELSE Result(OK, storage, d.st)
    ELSE IF pending # NoTask
    THEN LET a == add_contribution(storage, chunk_id, participant) IN
         IF a.err = OK
         THEN LET c == completed_task(st, participant, chunk_id, a.id) IN
              IF c.err # OK THEN Result(c.err, a.storage, c.st)
              ELSE Result(OK, state_save(c.st, a.storage), c.st)
         ELSE Result(a.err,
                     storage_remove_file(a.storage, Locator(round_height, chunk_id, pending[2], FALSE)),
                     st)
    ELSE Result("ContributionFailed", storage, st)

\* Coordinator::try_contribute
try_contribute(storage, st, participant, chunk_id) ==
    IF ~is_contributor(participant) THEN Result("ExpectedContributor", storage, st)
    ELSE IF chunk_id > NumberOfChunks THEN Result("ChunkIdInvalid", storage, st)
    ELSE IF ~state_is_current_contributor(st, participant)
    THEN Result("ParticipantUnauthorized", storage, st)
    ELSE
    LET round_height == load_current_round_height(storage).height
        disposing == lookup_disposing_task(st, participant, chunk_id)
        pending == lookup_pending_task(st, participant, chunk_id) IN
    IF disposing # NoTask
    THEN LET d == disposed_task(st, participant, chunk_id, disposing[2]) IN
         IF d.err # OK THEN Result(d.err, storage, d.st)
         ELSE Result(OK,
                     storage_remove_file(storage, Locator(round_height, chunk_id, disposing[2], FALSE)),
                     d.st)
    ELSE IF pending # NoTask
    THEN LET a == add_contribution(storage, chunk_id, participant) IN
         IF a.err = OK
         THEN LET c == completed_task(st, participant, chunk_id, a.id) IN
              IF c.err # OK THEN Result(c.err, a.storage, c.st)
              ELSE Result(OK, state_save(c.st, a.storage), c.st)
         ELSE Result(a.err,
                     storage_remove_file(a.storage, Locator(round_height, chunk_id, pending[2], FALSE)),
                     st)
    ELSE Result("ContributionFailed", storage, st)

\* The locator whose path a successful try_contribute returns.
try_contribute_locator(storage, st, participant, chunk_id) ==
    LET round_height == load_current_round_height(storage).height
        disposing == lookup_disposing_task(st, participant, chunk_id) IN
    IF disposing # NoTask
    THEN Locator(round_height, chunk_id, disposing[2], FALSE)
    ELSE add_contribution(storage, chunk_id, participant).locator

\* The locator that try_verify removes as it would be if it named the
\* verified output of the contribution before the one of the task.
NextChallengeOfPreviousTask(round, chunk_id, contribution_id) ==
    Locator(round.height, chunk_id, contribution_id - 1, TRUE)

\* The next challenge locator that try_verify removes for a task.
NextChallengeOfTask(round, chunk_id, contribution_id) ==
    IF contribution_id = expected_number_of_contributions(round) - 1
    THEN Locator(round.height + 1, chunk_id, 0, TRUE)
    ELSE Locator(round.height, chunk_id, contribution_id, TRUE)

\* Coordinator::try_verify
try_verify(storage, st, participant, chunk_id) ==
    IF ~is_verifier(participant) THEN Result("ExpectedVerifier", storage, st)
    ELSE IF chunk_id > NumberOfChunks THEN Result("ChunkIdInvalid", storage, st)
    ELSE IF ~state_is_current_verifier(st, participant)
    THEN Result("ParticipantUnauthorized", storage, st)
    ELSE
    LET disposing == lookup_disposing_task(st, participant, chunk_id)
        pending == lookup_pending_task(st, participant, chunk_id)
        r == load_current_round(storage) IN
    IF disposing # NoTask
    THEN LET d == disposed_task(st, participant, chunk_id, disposing[2]) IN
         IF d.err # OK THEN Result(d.err, storage, d.st)
         ELSE IF r.err # OK THEN Result(r.err, storage, d.st)
         ELSE Result(OK,
                     storage_remove_file(storage, NextChallengeOfTask(r.round, chunk_id, disposing[2])),
                     d.st)
    ELSE IF pending # NoTask
    THEN LET v == verify_contribution(storage, chunk_id, participant) IN
         IF v.err = OK
         THEN LET c == completed_task(st, participant, chunk_id, v.id) IN
              IF c.err # OK THEN Result(c.err, v.storage, c.st)
              ELSE Result(OK, state_save(c.st, v.storage), c.st)
         ELSE IF v.err = "panic" THEN Result("panic", storage, st)
         ELSE IF r.err # OK THEN Result(r.err, storage, st)
         ELSE Result(v.err,
                     storage_remove_file(storage, NextChallengeOfTask(r.round, chunk_id, pending[2])),
                     st)
    ELSE Result("VerificationFailed", storage, st)

\* Coordinator::add_to_queue
add_to_queue(storage, st, participant) ==
    LET a == state_add_to_queue(st, participant) IN
    IF a.err # OK THEN Result(a.err, storage, st)
    ELSE Result(OK, state_save(a.st, storage), a.st)

\* Round::remove_locks_unsafe
remove_locks_unsafe(round, justification) ==
    [round EXCEPT !.chunks = [c \in Chunks |->
        IF c \in justification.locked_chunks THEN [@[c] EXCEPT !.lock_holder = None] ELSE @[c]]]

\* The contributions of a chunk up to its last verified one.
RECURSIVE UpToLastVerified(_)
UpToLastVerified(contributions) ==
    IF contributions[Len(contributions)].verified THEN contributions
    ELSE UpToLastVerified(SubSeq(contributions, 1, Len(contributions) - 1))

\* Round::remove_chunk_contributions_unsafe: the round without the
\* contributions beyond the last verified one on the chunks of the
\* justification.
remove_chunk_contributions_unsafe(round, justification) ==
    [round EXCEPT !.chunks = [c \in Chunks |->
        IF c \in justification.locked_chunks
        THEN [@[c] EXCEPT !.contributions = UpToLastVerified(@)]
        ELSE @[c]]]

\* RemovedFiles as it would be if only the responses were removed and the
\* challenges made from them were left in storage.
RemovedFilesKeepsVerified(round, justification) ==
    {l \in FileLocators :
        /\ l[1] = round.height
        /\ l[2] \in justification.locked_chunks
        /\ ~l[4]
        /\ l[3] > Len(UpToLastVerified(round.chunks[l[2]].contributions)) - 1}

\* The files of the contributions that remove_chunk_contributions_unsafe
\* takes out of the round, and of the uploads on top of them.
RemovedFiles(round, justification) ==
    {l \in FileLocators :
        /\ l[1] = round.height
        /\ l[2] \in justification.locked_chunks
        /\ l[3] > Len(UpToLastVerified(round.chunks[l[2]].contributions)) - 1}

\* process_coordinator_state_change as it would be if it did not remove the
\* locks of the justification.
process_coordinator_state_change_keeps_locks(storage, justification) ==
    LET r == load_current_round(storage) IN
    IF r.err # OK THEN [err |-> "RoundDoesNotExist", storage |-> storage, locators |-> {}]
    ELSE IF justification.kind \notin {"BanCurrent", "DropCurrent"}
    THEN [err |-> "JustificationInvalid", storage |-> storage, locators |-> {}]
    ELSE [err |-> OK, storage |-> storage,
          locators |-> {Locator(r.round.height, t[1], t[2], TRUE) : t \in justification.tasks}]

\* Coordinator::process_coordinator_state_change: [err, storage, locators]
process_coordinator_state_change(storage, justification) ==
    LET r == load_current_round(storage) IN
    IF r.err # OK THEN [err |-> "RoundDoesNotExist", storage |-> storage, locators |-> {}]
    ELSE IF justification.kind \notin {"BanCurrent", "DropCurrent"}
    THEN [err |-> "JustificationInvalid", storage |-> storage, locators |-> {}]
    ELSE
    LET height == r.round.height
        locators == {Locator(height, t[1], t[2], TRUE) : t \in justification.tasks}
        unlocked == remove_locks_unsafe(r.round, justification)
        round == remove_chunk_contributions_unsafe(unlocked, justification)
        cleaned == [storage EXCEPT !.files = [l \in FileLocators |->
                       IF l \in RemovedFiles(r.round, justification) THEN NoFile ELSE @[l]]]
        u == storage_update_round(cleaned, height, round) IN
    IF u.err # OK THEN [err |-> u.err, storage |-> cleaned, locators |-> {}]
    ELSE [err |-> OK, storage |-> u.storage, locators |-> locators]

\* Coordinator::drop_participant
drop_participant(storage, st, participant) ==
    LET d == state_drop_participant(st, participant) IN
    IF d.err # OK THEN Result(d.err, storage, st)
    ELSE
    LET c == process_coordinator_state_change(storage, d.justification) IN
    IF c.err # OK THEN Result(c.err, c.storage, d.st)
    ELSE Result(OK, state_save(d.st, c.storage), d.st)

\* Coordinator::ban_participant
ban_participant(storage, st, participant) ==
    LET d == state_ban_participant(st, participant) IN
    IF d.err # OK THEN Result(d.err, storage, st)
    ELSE
    LET c == process_coordinator_state_change(storage, d.justification) IN
    IF c.err # OK THEN Result(c.err, c.storage, d.st)
    ELSE Result(OK, state_save(d.st, c.storage), d.st)

\* Coordinator::unban_participant
unban_participant(storage, st, participant) ==
    LET u == state_unban_participant(st, participant) IN
    Result(OK, state_save(u, storage), u)

\* The coordinator's own verifier, the verifier of round 0.
CoordinatorVerifier == "coordinator"

\* Coordinator::aggregate_contributions: [err, storage].  aggregation_runs
\* tells whether the external Aggregation::run succeeds; it writes the
\* round file.
aggregate_contributions(storage, aggregation_runs) ==
    LET h == load_current_round_height(storage).height
        fail(e) == [err |-> e, storage |-> storage] IN
    IF h = 0 THEN fail("RoundDoesNotExist")
    ELSE IF ~storage_exists_round(storage, h) THEN fail("RoundStateMissing")
    ELSE IF storage_exists_round(storage, h + 1) THEN fail("RoundShouldNotExist")
    ELSE IF h \in storage.round_files THEN fail("RoundLocatorAlreadyExists")
    ELSE
    LET r == load_current_round(storage) IN
    IF r.err # OK THEN fail(r.err)
    ELSE
    LET contribution_id == expected_number_of_contributions(r.round) - 1 IN
    IF \E c \in Chunks :
          \/ ~storage_exists_file(storage, Locator(h, c, contribution_id, FALSE))
          \/ ~storage_exists_file(storage, Locator(h + 1, c, 0, TRUE))
    THEN fail("ContributionMissing")
    ELSE IF ~round_is_complete(r.round) THEN fail("RoundNotComplete")
    ELSE IF ~aggregation_runs THEN fail("RoundAggregationFailed")
    ELSE [err |-> OK, storage |-> [storage EXCEPT !.round_files = @ \cup {h}]]

\* try_aggregate as it would be if it returned Ok without marking the round
\* as aggregated in the state.
try_aggregate_without_mark(storage, st, aggregation_runs) ==
    IF load_current_round_height(storage).height # st.height
    THEN Result("RoundHeightMismatch", storage, st)
    ELSE IF ~is_current_round_finished(st) THEN Result("RoundNotReady", storage, st)
    ELSE IF is_current_round_aggregated(st) THEN Result("RoundAlreadyAggregated", storage, st)
    ELSE
    LET g == aggregating_current_round(st) IN
    IF g.err # OK THEN Result(g.err, storage, g.st)
    ELSE
    LET a == aggregate_contributions(storage, aggregation_runs) IN
    IF a.err # OK THEN Result(a.err, a.storage, g.st)
    ELSE Result(OK, a.storage, g.st)

\* Coordinator::try_aggregate
try_aggregate(storage, st, aggregation_runs) ==
    IF load_current_round_height(storage).height # st.height
    THEN Result("RoundHeightMismatch", storage, st)
    ELSE IF ~is_current_round_finished(st) THEN Result("RoundNotReady", storage, st)
    ELSE IF is_current_round_aggregated(st) THEN Result("RoundAlreadyAggregated", storage, st)
    ELSE
    LET g == aggregating_current_round(st) IN
    IF g.err # OK THEN Result(g.err, storage, g.st)
    ELSE
    LET a == aggregate_contributions(storage, aggregation_runs) IN
    IF a.err # OK THEN Result(a.err, a.storage, g.st)
    ELSE
    LET d == aggregated_current_round(g.st) IN
    IF d.err # OK THEN Result(d.err, a.storage, d.st)
    ELSE IF ~is_current_round_aggregated(d.st) THEN Result("RoundAggregationFailed", a.storage, d.st)
    ELSE Result(OK, a.storage, d.st)

\* Initialization::run on the chunks from chunk_id on, as next_round calls
\* it at height 0: [err, storage].  initialized is the number of chunks on
\* which the external routine succeeds; it writes the first challenge of
\* the chunk for round 0 and for round 1.
RECURSIVE InitializeChunks(_, _, _)
InitializeChunks(storage, chunk_id, initialized) ==
    IF chunk_id = NumberOfChunks THEN [err |-> OK, storage |-> storage]
    ELSE IF \/ storage_exists_file(storage, Locator(0, chunk_id, 0, TRUE))
            \/ storage_exists_file(storage, Locator(1, chunk_id, 0, TRUE))
    THEN [err |-> "ContributionLocatorAlreadyExists", storage |-> storage]
    ELSE IF chunk_id >= initialized THEN [err |-> "InitializationFailed", storage |-> storage]
    ELSE InitializeChunks(
            [storage EXCEPT !.files[Locator(0, chunk_id, 0, TRUE)] = "h0",
                            !.files[Locator(1, chunk_id, 0, TRUE)] = "h0"],
            chunk_id + 1, initialized)

\* The end of next_round as it would be if it raised the round height
\* without inserting the new round.
NextRoundWithoutInsert(storage, new_height, contributors, verifiers) ==
    [err |-> OK, storage |-> [storage EXCEPT !.height = new_height], height |-> new_height]

\* The end of next_round: the new round is inserted, then the round height
\* is raised.
NextRoundInsert(storage, new_height, contributors, verifiers) ==
    LET n == storage_insert_round(storage, new_height,
                                  NewRound(new_height, contributors, verifiers)) IN
    IF n.err # OK THEN [err |-> n.err, storage |-> n.storage, height |-> 0]
    ELSE [err |-> OK, storage |-> [n.storage EXCEPT !.height = new_height], height |-> new_height]

\* next_round as it would be if it did not look for the first challenge of
\* every chunk of the new round.
next_round_without_seed_check(storage, contributors, verifiers, initialized) ==
    LET h == load_current_round_height(storage).height
        fail(e, sto) == [err |-> e, storage |-> sto, height |-> 0] IN
    IF contributors = {} THEN fail("ContributorsMissing", storage)
    ELSE IF verifiers = {} THEN fail("VerifierMissing", storage)
    ELSE IF h = 0 /\ (storage_exists_round(storage, 0) \/ storage_exists_round(storage, 1))
    THEN fail("RoundShouldNotExist", storage)
    ELSE
    LET i == IF h = 0 THEN InitializeChunks(storage, 0, initialized)
             ELSE [err |-> OK, storage |-> storage] IN
    IF i.err # OK THEN fail(i.err, i.storage)
    ELSE
    LET z == IF h = 0
             THEN storage_insert_round(i.storage, 0, NewRound(0, {}, {CoordinatorVerifier}))
             ELSE [err |-> OK, storage |-> i.storage] IN
    IF z.err # OK THEN fail(z.err, z.storage)
    ELSE IF h # 0 /\ h \notin z.storage.round_files THEN fail("RoundFileMissing", z.storage)
    ELSE
    LET new_height == h + 1 IN
    IF storage_exists_round(z.storage, new_height) THEN fail("RoundAlreadyInitialized", z.storage)
    ELSE
    NextRoundInsert(z.storage, new_height, contributors, verifiers)

\* next_round as it would be if it did not look for the round file of the
\* current round.
next_round_without_round_file_check(storage, contributors, verifiers, initialized) ==
    LET h == load_current_round_height(storage).height
        fail(e, sto) == [err |-> e, storage |-> sto, height |-> 0] IN
    IF contributors = {} THEN fail("ContributorsMissing", storage)
    ELSE IF verifiers = {} THEN fail("VerifierMissing", storage)
    ELSE IF h = 0 /\ (storage_exists_round(storage, 0) \/ storage_exists_round(storage, 1))
    THEN fail("RoundShouldNotExist", storage)
    ELSE
    LET i == IF h = 0 THEN InitializeChunks(storage, 0, initialized)
             ELSE [err |-> OK, storage |-> storage] IN
    IF i.err # OK THEN fail(i.err, i.storage)
    ELSE
    LET z == IF h = 0
             THEN storage_insert_round(i.storage, 0, NewRound(0, {}, {CoordinatorVerifier}))
             ELSE [err |-> OK, storage |-> i.storage] IN
    IF z.err # OK THEN fail(z.err, z.storage)
    ELSE
    LET new_height == h + 1 IN
    IF storage_exists_round(z.storage, new_height) THEN fail("RoundAlreadyInitialized", z.storage)
    ELSE IF \E c \in Chunks : ~storage_exists_file(z.storage, Locator(new_height, c, 0, TRUE))
    THEN fail("ContributionLocatorMissing", z.storage)
    ELSE
    NextRoundInsert(z.storage, new_height, contributors, verifiers)

\* Coordinator::next_round: [err, storage, height]
next_round(storage, contributors, verifiers, initialized) ==
    LET h == load_current_round_height(storage).height
        fail(e, sto) == [err |-> e, storage |-> sto, height |-> 0] IN
    IF contributors = {} THEN fail("ContributorsMissing", storage)
    ELSE IF verifiers = {} THEN fail("VerifierMissing", storage)
    ELSE IF h = 0 /\ (storage_exists_round(storage, 0) \/ storage_exists_round(storage, 1))
    THEN fail("RoundShouldNotExist", storage)
    ELSE
    LET i == IF h = 0 THEN InitializeChunks(storage, 0, initialized)
             ELSE [err |-> OK, storage |-> storage] IN
    IF i.err # OK THEN fail(i.err, i.storage)
    ELSE
    LET z == IF h = 0
             THEN storage_insert_round(i.storage, 0, NewRound(0, {}, {CoordinatorVerifier}))
             ELSE [err |-> OK, storage |-> i.storage] IN
    IF z.err # OK THEN fail(z.err, z.storage)
    ELSE IF h # 0 /\ h \notin z.storage.round_files THEN fail("RoundFileMissing", z.storage)
    ELSE
    LET new_height == h + 1 IN
    IF storage_exists_round(z.storage, new_height) THEN fail("RoundAlreadyInitialized", z.storage)
    ELSE IF \E c \in Chunks : ~storage_exists_file(z.storage, Locator(new_height, c, 0, TRUE))
    THEN fail("ContributionLocatorMissing", z.storage)
    ELSE
    NextRoundInsert(z.storage, new_height, contributors, verifiers)

\* try_advance as it would be if it did not commit the next round in the
\* state once next_round succeeded.
try_advance_without_commit(storage, st, initialized) ==
    IF load_current_round_height(storage).height # st.height
    THEN Result("RoundHeightMismatch", storage, st)
    ELSE
    LET p == precommit_next_round(st, st.height + 1) IN
    IF p.err # OK
    THEN Result(p.err, state_save(rollback_next_round(p.st), storage), rollback_next_round(p.st))
    ELSE
    LET n == next_round(storage, p.contributors, p.verifiers, initialized) IN
    Result(n.err, state_save(rollback_next_round(p.st), n.storage), rollback_next_round(p.st))

\* try_advance as it would be if it committed the next round after a
\* precommit that failed.
try_advance_commits_failed_precommit(storage, st, initialized) ==
    IF load_current_round_height(storage).height # st.height
    THEN Result("RoundHeightMismatch", storage, st)
    ELSE
    LET p == precommit_next_round(st, st.height + 1) IN
    IF p.err # OK
    THEN LET c == commit_next_round(p.st) IN Result(p.err, state_save(c, storage), c)
    ELSE
    LET n == next_round(storage, p.contributors, p.verifiers, initialized) IN
    IF n.err # OK
    THEN LET r == rollback_next_round(p.st) IN Result(n.err, state_save(r, n.storage), r)
    ELSE LET c == commit_next_round(p.st) IN Result(OK, state_save(c, n.storage), c)

\* Coordinator::try_advance
try_advance(storage, st, initialized) ==
    IF load_current_round_height(storage).height # st.height
    THEN Result("RoundHeightMismatch", storage, st)
    ELSE
    LET p == precommit_next_round(st, st.height + 1) IN
    IF p.err # OK
    THEN LET r == rollback_next_round(p.st) IN Result(p.err, state_save(r, storage), r)
    ELSE
    LET n == next_round(storage, p.contributors, p.verifiers, initialized) IN
    IF n.err # OK
    THEN LET r == rollback_next_round(p.st) IN Result(n.err, state_save(r, n.storage), r)
    ELSE LET c == commit_next_round(p.st) IN Result(OK, state_save(c, n.storage), c)

\* The justifications of a tick, handled one after the other by
\* process_coordinator_state_change; the first error ends the tick.
RECURSIVE ProcessJustifications(_, _)
ProcessJustifications(storage, justifications) ==
    IF justifications = <<>> THEN [err |-> OK, storage |-> storage]
    ELSE LET c == process_coordinator_state_change(storage, Head(justifications)) IN
         IF c.err # OK THEN [err |-> c.err, storage |-> c.storage]
         ELSE ProcessJustifications(c.storage, Tail(justifications))

\* Coordinator::update, from its last step to its first.  The last step:
\* the tick advances to the next round when the round is finished and
\* aggregated and the next round can be committed.
UpdateAdvance(storage, st, finished, initialized) ==
    IF finished /\ is_current_round_aggregated(st) /\ is_precommit_next_round_ready(st)
    THEN try_advance(storage, st, initialized)
    ELSE Result(OK, storage, st)

\* After try_aggregate returned a: its error ends the tick; otherwise the
\* state is saved and the tick goes on.
UpdateAggregated(a, initialized) ==
    IF a.err # OK THEN a
    ELSE UpdateAdvance(state_save(a.st, a.storage), a.st, TRUE, initialized)

\* The tick as it would be if it tried to advance before it aggregated.
UpdateAdvancesBeforeAggregate(storage, st, aggregation_runs, initialized) ==
    LET a == UpdateAdvance(storage, st, is_current_round_finished(st), initialized) IN
    IF a.err # OK THEN a
    ELSE IF is_current_round_finished(a.st) /\ ~is_current_round_aggregated(a.st)
    THEN LET g == try_aggregate(a.storage, a.st, aggregation_runs) IN
         IF g.err # OK THEN g ELSE Result(OK, state_save(g.st, g.storage), g.st)
    ELSE a

\* The tick aggregates a round that is finished and not aggregated.
UpdateAggregate(storage, st, aggregation_runs, initialized) ==
    IF is_current_round_finished(st) /\ ~is_current_round_aggregated(st)
    THEN UpdateAggregated(try_aggregate(storage, st, aggregation_runs), initialized)
    ELSE UpdateAdvance(storage, st, is_current_round_finished(st), initialized)

\* The first block of the tick, under one acquisition of the two locks: the
\* contributors and the verifiers of the round are updated, the participants
\* that timed out are dropped, and each justification is handled.  The
\* metrics, the queue order and the ban criteria have no effect on the state
\* of the model.  The state is saved after each step.
UpdateParticipants(st) ==
    state_update_current_verifiers(state_update_current_contributors(st))

UpdateProcessed(c, st) ==
    IF c.err # OK THEN Result(c.err, c.storage, st)
    ELSE Result(OK, state_save(st, c.storage), st)

UpdateDropped(storage, d) ==
    UpdateProcessed(ProcessJustifications(storage, d.justifications), d.st)

UpdateFirst(storage, st, timed_out) ==
    UpdateDropped(state_save(UpdateParticipants(st), storage),
                  state_update_dropped_participants(UpdateParticipants(st), timed_out))

\* The rest of the tick after its first block returned f: an error ends the
\* tick.
UpdateRest(f, aggregation_runs, initialized) ==
    IF f.err # OK THEN f
    ELSE UpdateAggregate(f.storage, f.st, aggregation_runs, initialized)

\* Coordinator::update.  timed_out are the participants that the tick finds
\* disconnected.
update(storage, st, timed_out, aggregation_runs, initialized) ==
    UpdateRest(UpdateFirst(storage, st, timed_out), aggregation_runs, initialized)

(***************************************************************************)
(* The coordinator as a state machine: one facade operation at a time.     *)
(***************************************************************************)
\* The clock of the silent participants while every participant answers: a
\* participant that went silent has the number of ticks since then.
NobodySilent == [p \in {} |-> 0]

VARIABLES
    storage,    \* the storage behind the storage lock
    state,      \* the CoordinatorState behind the state lock
    poisoned,   \* a thread panicked while it held the locks
    joined,     \* the participants that have joined the queue
    faults,     \* the number of faults of the environment so far
    last,       \* the last operation: its name, arguments and result
    storage_lock,   \* the thread that holds the storage write lock
    state_lock,     \* the thread that holds the state write lock
    pc,         \* where each thread is in the operation that it runs
    calls,      \* the number of calls that the threads have made
    idle        \* the ticks since each silent participant went silent

vars == <<storage, state, poisoned, joined, faults, last, storage_lock, state_lock, pc, calls, idle>>

locks == <<storage_lock, state_lock, pc, calls, idle>>

\* The threads: one for each participant, one for the operator of the
\* coordinator.
Operator == "operator"
Threads == Participants \cup {Operator}

\* A thread that runs no operation.
Idle == [op |-> None, at |-> "idle", arg |-> None, in_update |-> FALSE,
         finished |-> FALSE, rival |-> None]

Call(op, participant, chunk_id, err) ==
    [op |-> op, participant |-> participant, chunk_id |-> chunk_id, err |-> err]

NoChunk == NumberOfChunks + 1

\* The chunk ids that a caller passes: the valid ones and the one past them.
ChunkIds == 0 .. NumberOfChunks

Init ==
    /\ storage = NewStorage
    /\ state = NewCoordinatorState
    /\ poisoned = FALSE
    /\ joined = {}
    /\ faults = 0
    /\ last = Call("new", None, NoChunk, OK)
    /\ storage_lock = None
    /\ state_lock = None
    /\ pc = [t \in Threads |-> Idle]
    /\ calls = 0
    /\ idle = NobodySilent

\* The effect of a facade operation that returned r.  A call that returns
\* an error value and changes neither the storage nor the state leaves the model
\* where it is: the step is a stuttering step, and what the call returns in
\* a state is the value of its operator there.
Returns(op, participant, chunk_id, r) ==
    /\ r.err \in {OK, "panic"} \/ r.storage # storage \/ r.st # state
    /\ storage' = r.storage
    /\ state' = r.st
    /\ poisoned' = (r.err = "panic")
    /\ last' = Call(op, participant, chunk_id, r.err)
    /\ UNCHANGED locks

\* A fault of the environment: a participant that is dropped, banned or
\* found disconnected, a file that is not what its author was to write, an
\* external routine that fails.  A run has at most MaxFaults of them.
Fault(happens) ==
    /\ happens => faults < MaxFaults
    /\ faults' = IF happens THEN faults + 1 ELSE faults

\* A participant joins the ceremony once.
AddToQueue(p) ==
    /\ ~poisoned
    /\ p \notin joined \/ add_to_queue(storage, state, p).err # OK
    /\ Returns("add_to_queue", p, NoChunk, add_to_queue(storage, state, p))
    /\ joined' = joined \cup {p}
    /\ UNCHANGED faults

TryLock(p) ==
    /\ ~poisoned
    /\ Returns("try_lock", p, NoChunk, try_lock(storage, state, p))
    /\ UNCHANGED <<joined, faults>>

TryContribute(p, c) ==
    /\ ~poisoned
    /\ Returns("try_contribute", p, c, try_contribute(storage, state, p, c))
    /\ UNCHANGED <<joined, faults>>

TryVerify(p, c) ==
    /\ ~poisoned
    /\ Returns("try_verify", p, c, try_verify(storage, state, p, c))
    /\ UNCHANGED <<joined, faults>>

DropParticipant(p) ==
    /\ ~poisoned
    /\ Fault(TRUE)
    /\ Returns("drop_participant", p, NoChunk, drop_participant(storage, state, p))
    /\ UNCHANGED joined

BanParticipant(p) ==
    /\ ~poisoned
    /\ Fault(TRUE)
    /\ Returns("ban_participant", p, NoChunk, ban_participant(storage, state, p))
    /\ UNCHANGED joined

\* The operator lifts the ban or the drop of a participant.
UnbanParticipant(p) ==
    /\ ~poisoned
    /\ p \in state.banned \cup state.dropped
    /\ Returns("unban_participant", p, NoChunk, unban_participant(storage, state, p))
    /\ UNCHANGED <<joined, faults>>

TryAggregate(aggregation_runs) ==
    /\ ~poisoned
    /\ Fault(~aggregation_runs)
    /\ Returns("try_aggregate", None, NoChunk, try_aggregate(storage, state, aggregation_runs))
    /\ UNCHANGED joined

TryAdvance(initialized) ==
    /\ ~poisoned
    /\ state.height < MaxHeight
    /\ Fault(initialized < NumberOfChunks)
    /\ Returns("try_advance", None, NoChunk, try_advance(storage, state, initialized))
    /\ UNCHANGED joined

\* A tick advances from a round that is finished, so from a height above 0,
\* where next_round runs no initialization.
Update(timed_out, aggregation_runs) ==
    /\ ~poisoned
    /\ Fault(timed_out # {} \/ ~aggregation_runs)
    /\ Returns("update", None, NoChunk,
               update(storage, state, timed_out, aggregation_runs, NumberOfChunks))
    /\ storage'.height <= MaxHeight
    /\ UNCHANGED joined

\* The file that the holder of a chunk lock is to write.
OutputOf(round, c) ==
    IF is_contributor(round.chunks[c].lock_holder)
    THEN Locator(round.height, c, current_contribution_id(round.chunks[c]) + 1, FALSE)
    ELSE NextChallengeOf(round, round.height, c)

\* The file that the output of the holder of a chunk lock is computed from.
InputOf(round, c) ==
    IF is_contributor(round.chunks[c].lock_holder)
    THEN round.chunks[c].contributions[Len(round.chunks[c].contributions)].vloc
    ELSE Locator(round.height, c, current_contribution_id(round.chunks[c]), FALSE)

\* The honest output: it starts with the hash of the input.
HonestContent(sto, c) ==
    calculate_hash(sto.files[InputOf(sto.rounds[sto.height], c)])

\* What the holder of the lock of chunk c may write: the honest file, a file
\* that starts with another hash, a file that is too short, an empty file.
UploadContents(sto, c) ==
    {HonestContent(sto, c), calculate_hash(HonestContent(sto, c)), ShortFile, EmptyFile}

\* The participant that holds the lock of chunk c writes its output file.
Upload(c, content) ==
    /\ ~poisoned
    /\ storage_exists_round(storage, storage.height)
    /\ storage.rounds[storage.height].chunks[c].lock_holder # None
    /\ content \in UploadContents(storage, c)
    /\ content # storage.files[OutputOf(storage.rounds[storage.height], c)]
    /\ Fault(content # HonestContent(storage, c))
    /\ storage' = [storage EXCEPT !.files[OutputOf(storage.rounds[storage.height], c)] = content]
    /\ last' = Call("upload", storage.rounds[storage.height].chunks[c].lock_holder, c, OK)
    /\ UNCHANGED <<state, poisoned, joined, locks>>

\* The outcomes of initialization: it runs at height 0 only.
Initialized(st) == IF st.height = 0 THEN 0 .. NumberOfChunks ELSE {NumberOfChunks}

Next ==
    \/ \E p \in Participants : AddToQueue(p)
    \/ \E p \in Participants : TryLock(p)
    \/ \E p \in Participants, c \in ChunkIds : TryContribute(p, c)
    \/ \E p \in Participants, c \in ChunkIds : TryVerify(p, c)
    \/ \E p \in Participants : DropParticipant(p)
    \/ \E p \in Participants : BanParticipant(p)
    \/ \E p \in Participants : UnbanParticipant(p)
    \/ \E aggregation_runs \in BOOLEAN : TryAggregate(aggregation_runs)
    \/ \E initialized \in Initialized(state) : TryAdvance(initialized)
    \/ \E timed_out \in {{}} \cup {{p} : p \in state.current}, aggregation_runs \in BOOLEAN :
          Update(timed_out, aggregation_runs)
    \/ \E c \in Chunks, content \in FileContents : Upload(c, content)

Spec == Init /\ [][Next]_vars

(***************************************************************************)
(* The coordinator under concurrent callers.  A thread that runs a facade  *)
(* operation acquires the two write locks one after the other, runs the    *)
(* body of the operation while it holds both, and releases them when the   *)
(* operation returns.                                                      *)
(***************************************************************************)

\* The write locks of an operation in the order in which it acquires them.
LockOrder(op) ==
    IF op \in {"try_contribute", "try_verify"} THEN <<"state", "storage">>
    ELSE <<"storage", "state">>

Owner(name) == IF name = "storage" THEN storage_lock ELSE state_lock

\* RwLock::write by thread t: it returns once no thread holds the lock.
Acquire(name, t) ==
    /\ Owner(name) = None
    /\ IF name = "storage"
       THEN storage_lock' = t /\ UNCHANGED state_lock
       ELSE state_lock' = t /\ UNCHANGED storage_lock

\* The operations that a thread calls: a participant asks for a lock and
\* reports its work, the operator runs the ceremony.
ThreadOps(t) ==
    IF t = Operator
    THEN {"add_to_queue", "drop_participant", "ban_participant", "update",
          "try_aggregate", "try_advance"}
    ELSE IF is_contributor(t) THEN {"try_lock", "try_contribute"}
    ELSE {"try_lock", "try_verify"}

\* The participant that a call is about.
ArgsOf(t, op) ==
    IF op = "add_to_queue" THEN Participants \ joined
    ELSE IF op \in {"drop_participant", "ban_participant"} THEN joined
    ELSE IF t = Operator THEN {None}
    ELSE {t}

\* The number of calls that the threads make from the state in which they
\* start.
MaxCalls == 3

\* One turn of participant p on chunk c: it takes the lock, writes its file
\* and reports it.
Turn(p, c) ==
    <<<<"try_lock", p, c>>, <<"upload", p, c>>,
      <<IF is_contributor(p) THEN "try_contribute" ELSE "try_verify", p, c>>>>

\* The turns of contributors C1 and C2 and verifier V1 that complete a round
\* of two chunks, in the order of their tasks.
FullRound ==
    Turn("C1", 0) \o Turn("V1", 0) \o Turn("C2", 0) \o Turn("V1", 0)
    \o Turn("C2", 1) \o Turn("V1", 1) \o Turn("C1", 1) \o Turn("V1", 1)

\* The result of one operation of a turn.
Played(s, step) ==
    CASE step[1] = "try_lock" -> try_lock(s.storage, s.st, step[2])
      [] step[1] = "try_contribute" -> try_contribute(s.storage, s.st, step[2], step[3])
      [] step[1] = "try_verify" -> try_verify(s.storage, s.st, step[2], step[3])
      [] OTHER -> Result(OK,
                         [s.storage EXCEPT
                             !.files[OutputOf(s.storage.rounds[s.storage.height], step[3])] =
                                 HonestContent(s.storage, step[3])],
                         s.st)

\* The operations of a schedule, one after the other, up to the first error.
RECURSIVE Play(_, _)
Play(s, schedule) ==
    IF schedule = <<>> \/ s.err # OK THEN s
    ELSE Play(Played(s, Head(schedule)), Tail(schedule))

\* Round 1 as it starts with two contributors and one verifier.
RoundStarted ==
    LET a == add_to_queue(NewStorage, NewCoordinatorState, "C1")
        b == add_to_queue(a.storage, a.st, "C2")
        c == add_to_queue(b.storage, b.st, "V1") IN
    try_advance(c.storage, c.st, NumberOfChunks)

\* Round 1 once its participants have completed their tasks.
RoundPlayed == Play(RoundStarted, FullRound)

\* Round 1 once chunk 0 has its two contributions, the second one not yet
\* verified.
RoundHalfPlayed == Play(RoundStarted, SubSeq(FullRound, 1, 9))

\* The threads start when round 1 starts, in the middle of it, or when its
\* tasks are completed.
InitLocks ==
    /\ \E s \in {RoundStarted, RoundHalfPlayed, RoundPlayed} :
          /\ s.err = OK
          /\ storage = s.storage
          /\ state = s.st
    /\ poisoned = FALSE
    /\ joined = {"C1", "C2", "V1"}
    /\ faults = 0
    /\ last = Call("new", None, NoChunk, OK)
    /\ storage_lock = None
    /\ state_lock = None
    /\ pc = [t \in Threads |-> Idle]
    /\ calls = 0
    /\ idle = NobodySilent

\* Thread t calls op.  rival is the thread that runs try_lock under the
\* storage lock at the time of a call of try_lock.
Begin(t, op, p) ==
    /\ ~poisoned
    /\ pc[t].at = "idle"
    /\ op \in ThreadOps(t)
    /\ p \in ArgsOf(t, op)
    /\ calls < MaxCalls
    /\ calls' = calls + 1
    /\ op = "try_advance" => state.height < MaxHeight
    /\ Fault(op \in {"drop_participant", "ban_participant"})
    /\ joined' = IF op = "add_to_queue" THEN joined \cup {p} ELSE joined
    /\ pc' = [pc EXCEPT ![t] =
                [op |-> op, at |-> "start", arg |-> p, in_update |-> FALSE, finished |-> FALSE,
                 rival |-> IF op = "try_lock" /\ storage_lock # None
                              /\ pc[storage_lock].op = "try_lock"
                           THEN storage_lock ELSE None]]
    /\ UNCHANGED <<storage, state, poisoned, last, storage_lock, state_lock, idle>>

\* Thread t obtains the first lock of its operation.
AcquireFirst(t) ==
    /\ ~poisoned
    /\ pc[t].at = "start"
    /\ pc[t].op # "update_read"
    /\ Acquire(LockOrder(pc[t].op)[1], t)
    /\ pc' = [pc EXCEPT ![t].at = "first"]
    /\ UNCHANGED <<storage, state, poisoned, joined, faults, last, calls, idle>>

\* try_contribute and try_verify check, between their two locks, that the
\* caller is in the current round.
IsAuthorized(t) ==
    CASE pc[t].op = "try_contribute" -> state_is_current_contributor(state, t)
      [] pc[t].op = "try_verify" -> state_is_current_verifier(state, t)
      [] OTHER -> TRUE

\* Thread t obtains the second lock of its operation.
AcquireSecond(t) ==
    /\ ~poisoned
    /\ pc[t].at = "first"
    /\ IsAuthorized(t)
    /\ Acquire(LockOrder(pc[t].op)[2], t)
    /\ pc' = [pc EXCEPT ![t].at = "both"]
    /\ UNCHANGED <<storage, state, poisoned, joined, faults, last, calls, idle>>

\* try_contribute and try_verify return with the state lock only.
ReturnUnauthorized(t) ==
    /\ ~poisoned
    /\ pc[t].at = "first"
    /\ ~IsAuthorized(t)
    /\ state_lock' = None
    /\ pc' = [pc EXCEPT ![t] = Idle]
    /\ last' = Call(pc[t].op, t, NoChunk, "ParticipantUnauthorized")
    /\ UNCHANGED <<storage, state, poisoned, joined, faults, storage_lock, calls, idle>>

\* The body of op has run in thread t and returned r: the two locks are
\* released, and a panic poisons them.
Effect(t, op, participant, chunk_id, r, next) ==
    /\ ~poisoned
    /\ pc[t].at = "both"
    /\ pc[t].op = op
    /\ storage' = r.storage
    /\ state' = r.st
    /\ poisoned' = (r.err = "panic")
    /\ last' = Call(op, participant, chunk_id, r.err)
    /\ storage_lock' = None
    /\ state_lock' = None
    /\ pc' = [pc EXCEPT ![t] = next]
    /\ UNCHANGED <<calls, idle>>

RunTryLock(t) ==
    /\ Effect(t, "try_lock", t, NoChunk, try_lock(storage, state, t), [pc[t] EXCEPT !.at = "idle"])
    /\ UNCHANGED <<joined, faults>>

RunTryContribute(t, c) ==
    /\ Effect(t, "try_contribute", t, c, try_contribute(storage, state, t, c), Idle)
    /\ UNCHANGED <<joined, faults>>

RunTryVerify(t, c) ==
    /\ Effect(t, "try_verify", t, c, try_verify(storage, state, t, c), Idle)
    /\ UNCHANGED <<joined, faults>>

RunAddToQueue(t) ==
    /\ Effect(t, "add_to_queue", pc[t].arg, NoChunk, add_to_queue(storage, state, pc[t].arg), Idle)
    /\ UNCHANGED <<joined, faults>>

RunDropParticipant(t) ==
    /\ Effect(t, "drop_participant", pc[t].arg, NoChunk,
              drop_participant(storage, state, pc[t].arg), Idle)
    /\ UNCHANGED <<joined, faults>>

RunBanParticipant(t) ==
    /\ Effect(t, "ban_participant", pc[t].arg, NoChunk,
              ban_participant(storage, state, pc[t].arg), Idle)
    /\ UNCHANGED <<joined, faults>>

\* The place of the tick after the lock section that it has just left.
Tick(t, op, finished) ==
    [op |-> op, at |-> "start", arg |-> None, in_update |-> TRUE, finished |-> finished,
     rival |-> None]

\* try_aggregate, called by the operator or by the tick: the tick goes on
\* when it returns Ok.
AfterAggregate(t, r) ==
    IF pc[t].in_update /\ r.err = OK THEN Tick(t, "update_save", TRUE) ELSE Idle

RunTryAggregate(t, aggregation_runs) ==
    /\ Fault(~aggregation_runs)
    /\ Effect(t, "try_aggregate", None, NoChunk, try_aggregate(storage, state, aggregation_runs),
              AfterAggregate(t, try_aggregate(storage, state, aggregation_runs)))
    /\ UNCHANGED joined

RunTryAdvance(t) ==
    /\ Effect(t, "try_advance", None, NoChunk, try_advance(storage, state, NumberOfChunks), Idle)
    /\ UNCHANGED <<joined, faults>>

\* The first block of the tick: its error ends the tick; a round that is
\* finished and not aggregated is aggregated next.
AfterUpdate(t, r) ==
    IF r.err # OK THEN Idle
    ELSE IF is_current_round_finished(r.st) /\ ~is_current_round_aggregated(r.st)
    THEN Tick(t, "try_aggregate", TRUE)
    ELSE Tick(t, "update_read", is_current_round_finished(r.st))

RunUpdate(t, timed_out) ==
    /\ Fault(timed_out # {})
    /\ Effect(t, "update", None, NoChunk, UpdateFirst(storage, state, timed_out),
              AfterUpdate(t, UpdateFirst(storage, state, timed_out)))
    /\ UNCHANGED joined

\* The tick saves the state once the round is aggregated.
RunUpdateSave(t) ==
    /\ Effect(t, "update_save", None, NoChunk, Result(OK, state_save(state, storage), state),
              Tick(t, "update_read", TRUE))
    /\ UNCHANGED <<joined, faults>>

\* The tick reads the state under the state read lock, and advances when
\* the round is finished and aggregated and the next round is ready.
UpdateRead(t) ==
    /\ ~poisoned
    /\ pc[t].at = "start"
    /\ pc[t].op = "update_read"
    /\ state_lock = None
    /\ pc' = [pc EXCEPT ![t] =
                IF /\ pc[t].finished
                   /\ is_current_round_aggregated(state)
                   /\ is_precommit_next_round_ready(state)
                   /\ state.height < MaxHeight
                THEN Tick(t, "try_advance", TRUE)
                ELSE Idle]
    /\ UNCHANGED <<storage, state, poisoned, joined, faults, last, storage_lock, state_lock, calls, idle>>

\* A file is written under the storage write lock.
UploadLocked(c, content) ==
    /\ storage_lock = None
    /\ calls < MaxCalls
    /\ ~poisoned
    /\ storage_exists_round(storage, storage.height)
    /\ storage.rounds[storage.height].chunks[c].lock_holder # None
    /\ content \in UploadContents(storage, c)
    /\ content # storage.files[OutputOf(storage.rounds[storage.height], c)]
    /\ Fault(content # HonestContent(storage, c))
    /\ storage' = [storage EXCEPT !.files[OutputOf(storage.rounds[storage.height], c)] = content]
    /\ last' = Call("upload", storage.rounds[storage.height].chunks[c].lock_holder, c, OK)
    /\ calls' = calls + 1
    /\ UNCHANGED <<state, poisoned, joined, storage_lock, state_lock, pc, idle>>

NextLocks ==
    \/ \E t \in Threads, p \in Participants \cup {None} :
          \E op \in ThreadOps(t) : Begin(t, op, p)
    \/ \E t \in Threads : AcquireFirst(t)
    \/ \E t \in Threads : AcquireSecond(t)
    \/ \E t \in Threads : ReturnUnauthorized(t)
    \/ \E t \in Threads : RunTryLock(t)
    \/ \E t \in Threads, c \in ChunkIds : RunTryContribute(t, c)
    \/ \E t \in Threads, c \in ChunkIds : RunTryVerify(t, c)
    \/ \E t \in Threads : RunAddToQueue(t)
    \/ \E t \in Threads : RunDropParticipant(t)
    \/ \E t \in Threads : RunBanParticipant(t)
    \/ \E t \in Threads, aggregation_runs \in BOOLEAN : RunTryAggregate(t, aggregation_runs)
    \/ \E t \in Threads : RunTryAdvance(t)
    \/ \E t \in Threads, timed_out \in {{}} \cup {{p} : p \in state.current} : RunUpdate(t, timed_out)
    \/ \E t \in Threads : RunUpdateSave(t)
    \/ \E t \in Threads : UpdateRead(t)
    \/ \E c \in Chunks, content \in FileContents : UploadLocked(c, content)

SpecLocks == InitLocks /\ [][NextLocks]_vars

(***************************************************************************)
(* The lease of a chunk lock: a participant of the round may go silent,    *)
(* and the periodic tick of the coordinator counts the time since then.    *)
(***************************************************************************)
\* The number of ticks a participant may stay silent before a tick finds it
\* disconnected (timeout_seconds in ticks).
TimeoutTicks == 2

Silent == DOMAIN idle

\* The participants that a tick finds disconnected: the time since their
\* last heartbeat is above the timeout.
Disconnected == {p \in state.current \cap Silent : idle[p] >= TimeoutTicks}

\* A participant of the round stops: no heartbeat and no call from now on.
\* One participant does in a run, the others go on.
Silence(p) ==
    /\ ~poisoned
    /\ p \in state.current
    /\ Silent = {}
    /\ idle' = [q \in {p} |-> 0]
    /\ last' = Call("silence", p, NoChunk, OK)
    /\ UNCHANGED <<storage, state, poisoned, joined, faults, storage_lock, state_lock, pc, calls>>

\* The clock after a tick: the count of a silent participant goes up until
\* it is above the timeout.
Ticked ==
    [p \in Silent |->
        IF idle[p] > TimeoutTicks THEN idle[p] ELSE idle[p] + 1]

\* What a tick leaves: the storage and the state of update(), called with
\* the participants that it finds disconnected, and the clock.
TickResult(r, aggregation_runs) ==
    [storage |-> r.storage, state |-> r.st, poisoned |-> (r.err = "panic"),
     last |-> Call("update", None, NoChunk, r.err), idle |-> Ticked,
     faults |-> IF aggregation_runs THEN faults ELSE faults + 1]

TickOf(aggregation_runs) ==
    TickResult(update(storage, state, Disconnected, aggregation_runs, NumberOfChunks),
               aggregation_runs)

\* The periodic update() of the coordinator, with the clock.
UpdateTick(aggregation_runs) ==
    /\ ~poisoned
    /\ ~aggregation_runs => faults < MaxFaults
    /\ storage' = TickOf(aggregation_runs).storage
    /\ state' = TickOf(aggregation_runs).state
    /\ poisoned' = TickOf(aggregation_runs).poisoned
    /\ last' = TickOf(aggregation_runs).last
    /\ idle' = TickOf(aggregation_runs).idle
    /\ faults' = TickOf(aggregation_runs).faults
    /\ UNCHANGED <<joined, storage_lock, state_lock, pc, calls>>

\* The tick can make a step: the locks are not poisoned and the tick changes
\* the state, the storage, the clock or the record of the last call.
TickEnabled ==
    /\ ~poisoned
    /\ \E aggregation_runs \in BOOLEAN :
          /\ ~aggregation_runs => faults < MaxFaults
          /\ TickOf(aggregation_runs) #
                [storage |-> storage, state |-> state, poisoned |-> poisoned,
                 last |-> last, idle |-> idle, faults |-> faults]

\* The calls of the participants that have not gone silent.
AliveTryLock(p) == p \notin Silent /\ TryLock(p)

AliveTryContribute(p, c) == p \notin Silent /\ TryContribute(p, c)

AliveTryVerify(p, c) == p \notin Silent /\ TryVerify(p, c)

AliveUpload(c, content) ==
    /\ storage_exists_round(storage, storage.height)
    /\ storage.rounds[storage.height].chunks[c].lock_holder \in Participants \ Silent
    /\ Upload(c, content)

\* Round 1 starts with two contributors and a verifier, or with one
\* contributor and a verifier.
InitLease ==
    /\ \E alone \in BOOLEAN :
          LET a == add_to_queue(NewStorage, NewCoordinatorState, "C1")
              b == add_to_queue(a.storage, a.st, "V1")
              s == IF alone THEN try_advance(b.storage, b.st, NumberOfChunks)
                            ELSE RoundStarted IN
          /\ s.err = OK
          /\ storage = s.storage
          /\ state = s.st
          /\ joined = s.st.current
    /\ poisoned = FALSE
    /\ faults = 0
    /\ last = Call("new", None, NoChunk, OK)
    /\ storage_lock = None
    /\ state_lock = None
    /\ pc = [t \in Threads |-> Idle]
    /\ calls = 0
    /\ idle = NobodySilent

NextLease ==
    \/ \E p \in Participants : AliveTryLock(p)
    \/ \E p \in Participants, c \in ChunkIds : AliveTryContribute(p, c)
    \/ \E p \in Participants, c \in ChunkIds : AliveTryVerify(p, c)
    \/ \E c \in Chunks, content \in FileContents : AliveUpload(c, content)
    \/ \E p \in Participants : Silence(p)
    \/ \E aggregation_runs \in BOOLEAN : UpdateTick(aggregation_runs)

\* The coordinator runs update() again and again: its loop calls it every
\* few seconds for as long as the process runs.  This is the weak fairness
\* of the tick, WF_vars(\E aggregation_runs \in BOOLEAN : UpdateTick(aggregation_runs)),
\* written with the enabling condition of the tick as the state predicate
\* TickEnabled.
TickFairness ==
    \/ []<>(~TickEnabled)
    \/ []<><<\E aggregation_runs \in BOOLEAN : UpdateTick(aggregation_runs)>>_vars

SpecLease == InitLease /\ [][NextLease]_vars /\ TickFairness

(***************************************************************************)
(* The claims checked on the coordinator.                                  *)
(***************************************************************************)
HasRound == storage_exists_round(storage, storage.height)

CurrentRound == storage.rounds[storage.height]

Holder(c) == CurrentRound.chunks[c].lock_holder

\* p is in the current round and the task that try_lock(p) fetches is on
\* chunk c.
NextTaskIsOn(p, c) ==
    /\ p \in state.current
    /\ fetch_task(state, p).err = OK
    /\ fetch_task(state, p).task[1] = c

\* C1: a chunk of the current round has one holder at most: try_lock_chunk on
\* a chunk that is locked, by the caller or by another participant, returns
\* an error and leaves the storage, so the holder, as it is; and so does
\* try_lock for a participant whose next task is on a locked chunk.
C1_LockedChunkKeepsItsHolder ==
    HasRound =>
        \A c \in Chunks : Holder(c) # None =>
            /\ \A p \in Participants :
                  /\ try_lock_chunk(storage, c, p).err # OK
                  /\ try_lock_chunk(storage, c, p).storage = storage
            /\ \A p \in Participants : NextTaskIsOn(p, c) =>
                  /\ try_lock(storage, state, p).err # OK
                  /\ try_lock(storage, state, p).storage.rounds = storage.rounds

\* C1, its case: a chunk is locked, its holder could take one more lock, and
\* the next task of another participant of the round is on that chunk.
C1_Witness ==
    /\ HasRound
    /\ \E c \in Chunks, p \in Participants :
          /\ Holder(c) \in Contributors
          /\ Holder(c) # p
          /\ number_of_locks_held(CurrentRound, Holder(c)) < ContributorLockChunkLimit
          /\ NextTaskIsOn(p, c)
          /\ last.op = "try_lock"

PendingOn(p, c) == {t \in state.info[p].pending : t[1] = c}

\* C4: between facade operations, a participant that holds the lock of a
\* chunk of the current round has exactly one pending task on that chunk.
C4_LockHolderHasOnePendingTask ==
    HasRound =>
        \A c \in Chunks : Holder(c) \in Participants =>
            Cardinality(PendingOn(Holder(c), c)) = 1

\* C4, its case: a chunk is locked after a participant was dropped or
\* banned, or after a try_contribute or try_verify that returned an error.
C4_Witness ==
    /\ HasRound
    /\ \E c \in Chunks : Holder(c) \in Participants
    /\ \/ last.op \in {"drop_participant", "ban_participant"}
       \/ last.op \in {"try_contribute", "try_verify"} /\ last.err # OK

Buckets(i) == <<i.assigned, i.pending, i.completed, i.disposing, i.disposed>>

\* C5: for every participant the task buckets assigned, pending, completed,
\* disposing and disposed are pairwise disjoint.
C5_BucketsAreDisjoint ==
    \A p \in Participants : \A j, k \in 1 .. 5 :
        j # k => Buckets(state.info[p])[j] \cap Buckets(state.info[p])[k] = {}

\* C5, its case: a participant has tasks in three of its buckets at once,
\* one of them disposing or disposed.
C5_Witness ==
    \E p \in Participants :
        /\ Cardinality({j \in 1 .. 5 : Buckets(state.info[p])[j] # {}}) >= 3
        /\ state.info[p].disposing \cup state.info[p].disposed # {}

\* C6: for every chunk of the current round the number of verified
\* contributions is current_contribution_id or current_contribution_id + 1,
\* and it is the smaller one exactly when the last contribution is
\* unverified.
C6_VerifiedCount ==
    HasRound =>
        \A c \in Chunks :
            LET chunk == CurrentRound.chunks[c] IN
            NumberOfVerified(chunk) =
                IF current_contribution(chunk).verified
                THEN current_contribution_id(chunk) + 1
                ELSE current_contribution_id(chunk)

\* C6, its case: a chunk has a second contribution on top of a verified
\* first one, and that second contribution awaits its verifier.
C6_Witness ==
    /\ HasRound
    /\ \E c \in Chunks :
          /\ current_contribution_id(CurrentRound.chunks[c]) = 2
          /\ ~current_contribution(CurrentRound.chunks[c]).verified

\* C7: between facade operations the round height in storage is the round
\* height of the coordinator state.
C7_HeightsAgree == load_current_round_height(storage).height = state.height

\* C7, its case: try_advance or try_aggregate returned an error at a height
\* above 0.
C7_Witness ==
    /\ last.op \in {"try_advance", "try_aggregate"}
    /\ last.err # OK
    /\ storage.height >= 1

ContributesPending(p, c) ==
    /\ state_is_current_contributor(state, p)
    /\ lookup_disposing_task(state, p, c) = NoTask
    /\ lookup_pending_task(state, p, c) # NoTask

\* The response that p uploaded for chunk c: the file that add_contribution
\* reads.
UploadedResponse(c) ==
    Locator(storage.height, c, current_contribution_id(CurrentRound.chunks[c]) + 1, FALSE)

\* C9: when try_contribute(p, c) fails the linkage check, it returns
\* ContributionHashMismatch, the uploaded response is no longer in storage,
\* and the pending task of p on chunk c is back in assigned.
C9_HashMismatchRollsBack ==
    \A p \in Contributors, c \in Chunks :
        (/\ ContributesPending(p, c)
         /\ add_contribution(storage, c, p).err = "ContributionHashMismatch")
        => /\ try_contribute(storage, state, p, c).err = "ContributionHashMismatch"
           /\ ~storage_exists_file(try_contribute(storage, state, p, c).storage, UploadedResponse(c))
           /\ lookup_pending_task(state, p, c)
                 \in try_contribute(storage, state, p, c).st.info[p].assigned
           /\ lookup_pending_task(state, p, c)
                 \notin try_contribute(storage, state, p, c).st.info[p].pending

\* C9, its case: try_contribute has returned ContributionHashMismatch, and
\* the task of the caller on that chunk is still pending and the chunk is
\* still locked by the caller.
C9_Witness ==
    /\ last.op = "try_contribute"
    /\ last.err = "ContributionHashMismatch"
    /\ PendingOn(last.participant, last.chunk_id) # {}
    /\ Holder(last.chunk_id) = last.participant

\* The lock step of try_lock(p): fetch_task gave p a task and try_lock_chunk
\* on the chunk of that task returned an error.
LockStepFails(p) ==
    /\ p \in state.current
    /\ fetch_task(state, p).err = OK
    /\ try_lock_chunk(storage, fetch_task(state, p).task[1], p).err # OK

\* C10: when the lock step of try_lock fails after fetch_task moved a task
\* to pending, the task is back in assigned and the state is what it was
\* before the call, that state is the saved one, the rounds in storage are
\* unchanged, and the error of the lock step is returned.
C10_FailedLockRollsBack ==
    \A p \in Participants : LockStepFails(p) =>
        /\ try_lock(storage, state, p).err
              = try_lock_chunk(storage, fetch_task(state, p).task[1], p).err
        /\ try_lock(storage, state, p).st = state
        /\ try_lock(storage, state, p).storage.saved = state
        /\ try_lock(storage, state, p).storage.rounds = storage.rounds

\* C10, its case: a contributor whose next task is on a chunk that another
\* one holds, and a verifier at its lock limit with a task left.
C10_Witness ==
    /\ \E p \in Contributors :
          /\ LockStepFails(p)
          /\ try_lock(storage, state, p).err = "ChunkLockAlreadyAcquired"
    /\ \E p \in Verifiers :
          /\ LockStepFails(p)
          /\ try_lock(storage, state, p).err = "ChunkLockLimitReached"

\* The step is the body of try_lock in the thread of participant q.
RunsTryLock(q) == pc[q].op = "try_lock" /\ pc[q].at = "both" /\ pc'[q].at = "idle"

LockLimit(q) == IF is_contributor(q) THEN ContributorLockChunkLimit ELSE VerifierLockChunkLimit

\* C2: calls of try_lock by concurrent threads take effect one at a time, each
\* while its thread holds the two write locks and on the state that the
\* holder before it left.  A call that returns Ok takes the lock of the chunk
\* of the caller's task, which no participant held, and leaves the other
\* locks as they are; a call of a participant below its lock limit whose task
\* is on a chunk that another participant holds returns
\* ChunkLockAlreadyAcquired and changes neither the locks nor the state.  So
\* no two calls end up with the lock of the same chunk.
C2_ConcurrentTryLock ==
    [][\A q \in Participants : RunsTryLock(q) /\ HasRound =>
          /\ storage_lock = q /\ state_lock = q
          /\ storage' = try_lock(storage, state, q).storage
          /\ state' = try_lock(storage, state, q).st
          /\ try_lock(storage, state, q).err = OK =>
                \E c \in Chunks :
                   /\ NextTaskIsOn(q, c)
                   /\ Holder(c) = None
                   /\ Holder(c)' = q
                   /\ \A d \in Chunks \ {c} : Holder(d)' = Holder(d)
          /\ \A c \in Chunks :
                (/\ NextTaskIsOn(q, c)
                 /\ Holder(c) \notin {None, q}
                 /\ number_of_locks_held(CurrentRound, q) < LockLimit(q)) =>
                   /\ try_lock(storage, state, q).err = "ChunkLockAlreadyAcquired"
                   /\ \A d \in Chunks : Holder(d)' = Holder(d)
                   /\ state' = state
      ]_vars

\* C2, its case: from the start of the round two participants have called
\* try_lock, the second while the first ran it under the storage lock; the
\* first holds the lock of a chunk and the second has returned
\* ChunkLockAlreadyAcquired.
C2_Witness ==
    \E p \in Participants, q \in Participants, c \in Chunks :
       /\ p # q
       /\ calls = 2
       /\ pc[p].op = "try_lock" /\ pc[p].at = "idle"
       /\ pc[q].op = "try_lock" /\ pc[q].at = "idle" /\ pc[q].rival = p
       /\ Holder(c) = p
       /\ last = Call("try_lock", q, NoChunk, "ChunkLockAlreadyAcquired")

\* C3: a thread that obtains the storage lock does not hold the state lock:
\* every operation acquires the storage lock first and the state lock second.
C3_StorageLockBeforeStateLock ==
    [][\A t \in Threads : (storage_lock # t /\ storage_lock' = t) => state_lock # t]_vars

\* C3, its case: a thread that runs try_contribute or try_verify holds the
\* state lock and has yet to acquire the storage lock.
C3_Witness ==
    \E t \in Participants :
       /\ pc[t].op \in {"try_contribute", "try_verify"}
       /\ pc[t].at = "first"
       /\ state_lock = t
       /\ storage_lock # t
       /\ IsAuthorized(t)

\* C11: a drop_participant or ban_participant that returns an error leaves
\* the coordinator state in memory and the persisted one as they were before
\* the call: the participant is not removed, dropped or banned.
C11_FailedDropChangesNothing ==
    \A p \in Participants :
       /\ drop_participant(storage, state, p).err # OK =>
             /\ drop_participant(storage, state, p).st = state
             /\ drop_participant(storage, state, p).storage.saved = storage.saved
       /\ ban_participant(storage, state, p).err # OK =>
             /\ ban_participant(storage, state, p).st = state
             /\ ban_participant(storage, state, p).storage.saved = storage.saved

\* C11, its case: drop_participant or ban_participant of a queued
\* participant has returned JustificationInvalid or RoundDoesNotExist, and
\* the participant is no longer in the queue of the state in memory while
\* the persisted state still has it.
C11_Witness ==
    /\ last.op \in {"drop_participant", "ban_participant"}
    /\ last.err \in {"JustificationInvalid", "RoundDoesNotExist"}
    /\ last.participant \notin state.queue
    /\ last.participant \in storage.saved.queue

\* The sub-steps of Coordinator::update that a tick enters, in the order of
\* the code: the first block up to the justifications of the dropped
\* participants, the update of the banned participants, the aggregation
\* check with try_aggregate, the advance check.  An error of a sub-step is
\* returned with `?`, which ends the tick there.
UpdateSubSteps(f, aggregation_runs) ==
    IF f.err # OK THEN <<"update_dropped_participants">>
    ELSE <<"update_dropped_participants", "update_banned_participants", "aggregation check">>
         \o (IF is_current_round_finished(f.st) /\ ~is_current_round_aggregated(f.st)
             THEN IF try_aggregate(f.storage, f.st, aggregation_runs).err # OK
                  THEN <<"try_aggregate">>
                  ELSE <<"try_aggregate", "advance check">>
             ELSE <<"advance check">>)

\* The inputs of a tick in the current state: the participants it finds
\* disconnected.
TimedOut == {{}} \cup {{p} : p \in state.current}

\* C12: a tick of update() in which a sub-step fails still runs the
\* sub-steps that follow it: whatever try_aggregate or the handling of a
\* justification returns, the tick runs the update of the banned
\* participants, the aggregation check and the advance check.
C12_TickRunsEverySubStep ==
    \A timed_out \in TimedOut, aggregation_runs \in BOOLEAN :
       LET steps == UpdateSubSteps(UpdateFirst(storage, state, timed_out), aggregation_runs) IN
       /\ \E i \in 1 .. Len(steps) : steps[i] = "update_banned_participants"
       /\ \E i \in 1 .. Len(steps) : steps[i] = "aggregation check"
       /\ steps[Len(steps)] = "advance check"

\* C12, its case: a tick has run try_aggregate on a finished round, the
\* aggregation failed and the tick returned its error.
C12_Witness ==
    /\ last.op = "update"
    /\ last.err = "RoundAggregationFailed"
    /\ is_current_round_finished(state)
    /\ ~is_current_round_aggregated(state)

\* The result r of a facade operation called in the current state: if the
\* operation succeeded and changed the coordinator state, the state that it
\* leaves in storage is the new one.
SavesItsState(r) == (r.err = OK /\ r.st # state) => r.storage.saved = r.st

\* C13: every facade operation that changes the coordinator state writes the
\* new state to storage before it returns, so that the persisted state is
\* the one in memory: try_aggregate, try_contribute and try_verify with their
\* disposing paths, try_lock, try_advance, add_to_queue, drop_participant and
\* ban_participant.
C13_ChangedStateIsSaved ==
    /\ storage.saved = state =>
          /\ \A aggregation_runs \in BOOLEAN :
                SavesItsState(try_aggregate(storage, state, aggregation_runs))
          /\ \A p \in Participants, c \in ChunkIds :
                /\ SavesItsState(try_contribute(storage, state, p, c))
                /\ SavesItsState(try_verify(storage, state, p, c))
          /\ \A p \in Participants :
                /\ SavesItsState(try_lock(storage, state, p))
                /\ SavesItsState(add_to_queue(storage, state, p))
                /\ SavesItsState(drop_participant(storage, state, p))
                /\ SavesItsState(ban_participant(storage, state, p))
          /\ state.height < MaxHeight =>
                \A initialized \in Initialized(state) :
                   SavesItsState(try_advance(storage, state, initialized))
    /\ ~poisoned /\ last.err = OK /\ last.op # "upload" => storage.saved = state

\* C13, its case: try_aggregate has succeeded on a finished round; the state
\* in memory reports the round as aggregated and the persisted state does
\* not.
C13_Witness ==
    /\ last = Call("try_aggregate", None, NoChunk, OK)
    /\ is_current_round_aggregated(state)
    /\ ~is_current_round_aggregated(storage.saved)
    /\ state.height \in storage.round_files

ReadyToAdvance ==
    /\ is_current_round_finished(state)
    /\ is_current_round_aggregated(state)
    /\ is_precommit_next_round_ready(state)

\* try_advance has returned r: the round height is raised only from a state
\* that is ready to advance, and from any other state r is an error with the
\* round height, the rounds in storage, the rosters and the queue unchanged.
AdvancesOnlyWhenReady(r) ==
    /\ (r.storage.height # storage.height \/ r.st.height # state.height) => ReadyToAdvance
    /\ ~ReadyToAdvance =>
          /\ r.err # OK
          /\ r.storage.height = storage.height
          /\ r.st.height = state.height
          /\ r.storage.rounds = storage.rounds
          /\ r.st.current = state.current
          /\ r.st.queue = state.queue

\* C15 as stated: at every round height try_advance raises the round height
\* only when the current round is finished and aggregated and the precommit
\* of the next round is ready, and in every other state it returns an error
\* and leaves the round height, the rounds in storage and the rosters
\* unchanged.
C15_AdvanceOnlyWhenReady ==
    state.height < MaxHeight =>
       \A initialized \in Initialized(state) :
          AdvancesOnlyWhenReady(try_advance(storage, state, initialized))

\* C15, amended: the same from round 1 on.  At height 0 there is no round to
\* finish or to aggregate and try_advance starts round 1 as soon as the
\* precommit is ready.
C15_AdvanceOnlyWhenReadyFromRound1 ==
    (1 <= state.height /\ state.height < MaxHeight) =>
       \A initialized \in Initialized(state) :
          AdvancesOnlyWhenReady(try_advance(storage, state, initialized))

\* C15, its case: try_advance has raised the round height from 1 to 2; in
\* the new round, which is not finished, it returns an error.
C15_Witness ==
    /\ last = Call("try_advance", None, NoChunk, OK)
    /\ state.height = 2
    /\ storage.height = 2
    /\ ~ReadyToAdvance
    /\ 1 \in storage.round_files

\* try_advance has failed with r: the precommit is rolled back, the round
\* height in storage and in the state and the rounds in storage are as
\* before the call, the state that is left is the persisted one, and the
\* error is the one of precommit_next_round or else of next_round.
FailedAdvanceRollsBack(r, initialized) ==
    LET p == precommit_next_round(state, state.height + 1) IN
    /\ r.st.precommit = {}
    /\ r.st = rollback_next_round(p.st)
    /\ r.st.height = state.height
    /\ r.storage.height = storage.height
    /\ r.storage.rounds = storage.rounds
    /\ r.storage.saved = r.st
    /\ r.err = IF p.err # OK THEN p.err
               ELSE next_round(storage, p.contributors, p.verifiers, initialized).err

\* C16: when precommit_next_round or next_round fails inside try_advance,
\* the precommit is rolled back, the round height is unchanged in storage
\* and in the state, no new round state remains in storage, the rolled-back
\* state is persisted and the original error is returned; and a try_advance
\* that could succeed before the failed call can still succeed after it.
C16_FailedAdvanceCanBeRetried ==
    state.height < MaxHeight =>
       \A initialized \in Initialized(state) :
          LET r == try_advance(storage, state, initialized) IN
          r.err # OK =>
             /\ FailedAdvanceRollsBack(r, initialized)
             /\ try_advance(storage, state, NumberOfChunks).err = OK =>
                   try_advance(r.storage, r.st, NumberOfChunks).err = OK

\* C16, its case: try_advance at height 0 has failed in next_round, in the
\* initialization of a chunk after the first; the files of the first chunk
\* are in storage and the next try_advance returns
\* ContributionLocatorAlreadyExists.
C16_Witness ==
    /\ last = Call("try_advance", None, NoChunk, "InitializationFailed")
    /\ state.height = 0 /\ storage.height = 0
    /\ state.precommit = {}
    /\ storage.saved = state
    /\ storage_exists_file(storage, Locator(0, 0, 0, TRUE))
    /\ try_advance(storage, state, NumberOfChunks).err = "ContributionLocatorAlreadyExists"

\* Participant p of the current round has been dropped from state st with
\* result r: p is in the dropped set and out of the round, no chunk of the
\* round in storage is locked by p, and the chunks that p held have no
\* contribution beyond their last verified one.
DroppedFromRound(p, st, r) ==
    LET before == storage.rounds[storage.height]
        after == r.storage.rounds[storage.height] IN
    /\ r.err = OK
    /\ p \in r.st.dropped
    /\ p \notin r.st.current
    /\ \A c \in Chunks :
          /\ after.chunks[c].lock_holder # p
          /\ before.chunks[c].lock_holder = p =>
                after.chunks[c].contributions = UpToLastVerified(before.chunks[c].contributions)
          /\ after.chunks[c].contributions[Len(after.chunks[c].contributions)].verified
             \/ after.chunks[c] = before.chunks[c]

\* The participants of the round that r leaves with the role of p.
SameRole(p, r) == {q \in r.st.current \ {p} : is_contributor(q) = is_contributor(p)}

\* The tasks that p had not finished in st are assigned, after r, to one
\* other participant of the round with the role of p.
Reassigned(p, st, r) ==
    LET unfinished == st.info[p].assigned \cup st.info[p].pending IN
    unfinished # {} => \E q \in SameRole(p, r) : unfinished \subseteq r.st.info[q].assigned

BannedIsLockedOut ==
    \A p \in state.banned :
       /\ add_to_queue(storage, state, p).err = "ParticipantBanned"
       /\ add_to_queue(storage, state, p).st = state
       /\ add_to_queue(storage, state, p).storage = storage
       /\ try_lock(storage, state, p).err = "ParticipantUnauthorized"
       /\ try_lock(storage, state, p).st = state
       /\ try_lock(storage, state, p).storage = storage

\* C18: from the ban_participant of a participant to its unban_participant
\* the participant is locked out: it stays banned until a step of
\* unban_participant, and as long as it is banned add_to_queue returns
\* ParticipantBanned and try_lock returns ParticipantUnauthorized without
\* changing the queue, the rosters, the task buckets or a chunk lock.
C18_BannedUntilUnban ==
    /\ []BannedIsLockedOut
    /\ [][\A p \in state.banned :
             p \notin state'.banned => last' = Call("unban_participant", p, NoChunk, OK)]_vars

\* C18, its case: a participant of the round that held the lock of a chunk
\* has been banned by a ban_participant that returned Ok; it is banned, out
\* of the round and holds no lock.
C18_Witness ==
    /\ last.op = "ban_participant" /\ last.err = OK
    /\ last.participant \in state.banned
    /\ last.participant \notin state.current
    /\ HasRound
    /\ \A c \in Chunks : Holder(c) # last.participant
    /\ storage.saved = state
    /\ add_to_queue(storage, state, last.participant).err = "ParticipantBanned"
    /\ try_lock(storage, state, last.participant).err = "ParticipantUnauthorized"

\* C19: no participant holds more chunk locks of the current round than the
\* lock limit of its role, and try_lock of a participant of the round that
\* holds as many locks as its limit and has a task to fetch returns
\* ChunkLockLimitReached and locks no chunk.
C19_LockLimit ==
    HasRound =>
       \A p \in Participants :
          /\ number_of_locks_held(CurrentRound, p) <= LockLimit(p)
          /\ (/\ p \in state.current
              /\ fetch_task(state, p).err = OK
              /\ number_of_locks_held(CurrentRound, p) = LockLimit(p)) =>
                /\ try_lock(storage, state, p).err = "ChunkLockLimitReached"
                /\ try_lock(storage, state, p).storage.rounds = storage.rounds
                /\ try_lock(storage, state, p).st.info[p].locked = state.info[p].locked

\* C19, its case: a contributor holds the locks of two distinct chunks at
\* once, which is its limit, has another task to fetch and is refused with
\* ChunkLockLimitReached.
C19_Witness ==
    /\ HasRound
    /\ \E p \in Contributors :
          /\ p \in state.current
          /\ Holder(0) = p /\ Holder(1) = p
          /\ number_of_locks_held(CurrentRound, p) = ContributorLockChunkLimit
          /\ fetch_task(state, p).err = OK
          /\ try_lock(storage, state, p).err = "ChunkLockLimitReached"

\* try_contribute(p, c) returns ContributionFailed from storage sto and
\* state st and changes neither of them: the state, the round and the files
\* are as before.
ContributionIsRefused(sto, st, p, c) ==
    /\ try_contribute(sto, st, p, c).err = "ContributionFailed"
    /\ try_contribute(sto, st, p, c).st = st
    /\ try_contribute(sto, st, p, c).storage = sto

\* The second of two calls in a row: try_contribute(p, c) right after a
\* try_contribute(p, c) that succeeded in the current state.
SecondCallIsRefused(p, c) ==
    LET r == try_contribute(storage, state, p, c) IN
    r.err = OK => ContributionIsRefused(r.storage, r.st, p, c)

\* Contributor p has contributed to chunk c in this round and has not locked
\* it again: a task of p on c is completed, p does not hold the lock of c and
\* has no task on c pending, which is what a lock of c by p leaves until the
\* next contribution of p to c succeeds.
HasContributed(p, c) ==
    /\ HasRound
    /\ \E i \in 1 .. ContributorsPerRound : <<c, i>> \in state.info[p].completed
    /\ Holder(c) # p
    /\ lookup_pending_task(state, p, c) = NoTask

\* C20 as stated: after try_contribute(p, c) has succeeded, a second
\* try_contribute(p, c), made at any time before p locks chunk c again,
\* returns ContributionFailed and changes neither the coordinator state, the
\* round in storage, nor a contribution file.
C20_SecondContributionFails ==
    \A p \in Contributors, c \in Chunks :
       /\ SecondCallIsRefused(p, c)
       /\ HasContributed(p, c) => ContributionIsRefused(storage, state, p, c)

\* C20, amended: the same as long as p is a contributor of the current
\* round; once p has left the round, finished or dropped, the second call
\* returns ParticipantUnauthorized, and it changes nothing either.
C20_SecondContributionFailsInRound ==
    \A p \in Contributors, c \in Chunks :
       /\ SecondCallIsRefused(p, c)
       /\ HasContributed(p, c) =>
             IF p \in state.current
             THEN ContributionIsRefused(storage, state, p, c)
             ELSE /\ try_contribute(storage, state, p, c).err = "ParticipantUnauthorized"
                  /\ try_contribute(storage, state, p, c).st = state
                  /\ try_contribute(storage, state, p, c).storage = storage

\* C20, its case: try_contribute(p, c) has just succeeded, p is in the round
\* and has its task on c completed, the lock of c is released, and the same
\* call again returns ContributionFailed.
C20_Witness ==
    \E p \in Contributors, c \in Chunks :
       /\ last = Call("try_contribute", p, c, OK)
       /\ p \in state.current
       /\ HasContributed(p, c)
       /\ try_contribute(storage, state, p, c).err = "ContributionFailed"

C22_AdvanceWithoutContributors ==
    (state.height = 0 /\ state.queue \cap Contributors = {}) =>
       \A initialized \in Initialized(state) :
          LET r == try_advance(storage, state, initialized) IN
          /\ r.err = "ContributorsMissing"
          /\ r.storage.height = 0
          /\ r.st.height = 0
          /\ r.storage.rounds = storage.rounds
          /\ r.storage.files = storage.files
          /\ r.st.current = {}

\* C22, its case: at height 0 a verifier is queued and no contributor is;
\* try_advance returns ContributorsMissing, and no round and no file exists.
C22_Witness ==
    /\ state.height = 0 /\ storage.height = 0
    /\ state.queue \cap Verifiers # {}
    /\ state.queue \cap Contributors = {}
    /\ try_advance(storage, state, NumberOfChunks).err = "ContributorsMissing"
    /\ \A h \in Heights : ~storage_exists_round(storage, h)
    /\ \A l \in FileLocators : ~storage_exists_file(storage, l)

\* next_round at height 0 has returned n for the rosters cs and vs: the
\* round height is 1, round 0 is in storage and complete with no round file
\* written, round 1 is in storage with exactly the rosters cs and vs, and the
\* first challenge of every chunk exists for round 0 and for round 1.
Bootstrapped(n, cs, vs) ==
    /\ n.height = 1
    /\ n.storage.height = 1
    /\ storage_exists_round(n.storage, 0)
    /\ storage_exists_round(n.storage, 1)
    /\ round_is_complete(n.storage.rounds[0])
    /\ n.storage.round_files = {}
    /\ n.storage.rounds[1].height = 1
    /\ n.storage.rounds[1].contributors = cs
    /\ n.storage.rounds[1].verifiers = vs
    /\ \A c \in Chunks :
          /\ storage_exists_file(n.storage, Locator(0, c, 0, TRUE))
          /\ storage_exists_file(n.storage, Locator(1, c, 0, TRUE))

\* C23: from round height 0 a bootstrap that succeeds, next_round with
\* the supplied rosters or try_advance with the rosters of the queue, ends
\* with round height 1, round 0 present and complete without aggregation,
\* round 1 with exactly the supplied contributors and verifiers, and the
\* files ContributionFile(0, c, 0, true) and ContributionFile(1, c, 0, true)
\* of every chunk c.
C23_Bootstrap ==
    storage.height = 0 =>
       \A initialized \in Initialized(state) :
          /\ \A cs \in SUBSET Contributors, vs \in SUBSET Verifiers :
                LET n == next_round(storage, cs, vs, initialized) IN
                n.err = OK => Bootstrapped(n, cs, vs)
          /\ LET r == try_advance(storage, state, initialized)
                 p == precommit_next_round(state, 1) IN
             r.err = OK =>
                /\ Bootstrapped([height |-> r.st.height, storage |-> r.storage],
                                p.contributors, p.verifiers)
                /\ r.st.current = p.contributors \cup p.verifiers

\* C23, its case: the bootstrap has just succeeded from empty storage with
\* two contributors and one verifier.
C23_Witness ==
    /\ last = Call("try_advance", None, NoChunk, OK)
    /\ storage.height = 1
    /\ state.current = {"C1", "C2", "V1"}
    /\ Bootstrapped([height |-> state.height, storage |-> storage], {"C1", "C2"}, {"V1"})
    /\ ~round_is_complete(storage.rounds[1])


\* The first challenge of every chunk of round h is in storage.
SeedsPresent(sto, h) ==
    \A c \in Chunks : storage_exists_file(sto, Locator(h, c, 0, TRUE))

\* The storage with the round file of round h written.
WithRoundFile(sto, h) == [sto EXCEPT !.round_files = @ \cup {h}]

\* C24 (as stated): whenever round h >= 1 is the current round the file
\* ContributionFile(h, c, 0, true) exists for every chunk c, and next_round
\* creates round h+1 only if every ContributionFile(h+1, c, 0, true) exists
\* and fails with ContributionLocatorMissing otherwise.
C24_SeedFiles ==
    storage.height >= 1 =>
       /\ SeedsPresent(storage, storage.height)
       /\ storage.height < MaxHeight =>
             \A cs \in SUBSET Contributors \ {{}}, vs \in SUBSET Verifiers \ {{}} :
                LET n == next_round(storage, cs, vs, NumberOfChunks) IN
                /\ n.err = OK => SeedsPresent(storage, storage.height + 1)
                /\ ~SeedsPresent(storage, storage.height + 1) =>
                      n.err = "ContributionLocatorMissing"

\* C24 (amended): whenever round h >= 1 is the current round the file
\* ContributionFile(h, c, 0, true) exists for every chunk c, and next_round
\* creates round h+1 only if every ContributionFile(h+1, c, 0, true) exists;
\* while one of them is missing next_round fails and changes nothing, with
\* RoundFileMissing as long as round h has no round file, which it checks
\* first, and with ContributionLocatorMissing once the round file is there.
C24_SeedFilesAfterRoundFile ==
    storage.height >= 1 =>
       /\ SeedsPresent(storage, storage.height)
       /\ storage.height < MaxHeight =>
             \A cs \in SUBSET Contributors \ {{}}, vs \in SUBSET Verifiers \ {{}} :
                LET h == storage.height
                    n == next_round(storage, cs, vs, NumberOfChunks)
                    w == WithRoundFile(storage, h)
                    m == next_round(w, cs, vs, NumberOfChunks) IN
                /\ n.err = OK =>
                      /\ SeedsPresent(storage, h + 1)
                      /\ storage_exists_round(n.storage, h + 1)
                /\ ~SeedsPresent(storage, h + 1) =>
                      /\ n.storage = storage
                      /\ n.err = IF h \in storage.round_files
                                 THEN "ContributionLocatorMissing"
                                 ELSE "RoundFileMissing"
                      /\ m.err = "ContributionLocatorMissing"
                      /\ m.storage = w

\* C24 witness: round 1 is the current round, its first challenges are in
\* storage, a verification has just written the first challenge of round 2 for
\* one chunk and that of another chunk is still missing, so that next_round
\* refuses to create round 2.
C24_Witness ==
    /\ storage.height = 1
    /\ last.op = "try_verify"
    /\ last.err = OK
    /\ next_round(storage, {"C1"}, {"V1"}, NumberOfChunks).err = "RoundFileMissing"
    /\ next_round(WithRoundFile(storage, 1), {"C1"}, {"V1"}, NumberOfChunks).err
          = "ContributionLocatorMissing"
    /\ SeedsPresent(storage, 1)
    /\ ~SeedsPresent(storage, 2)
    /\ \E c \in Chunks : storage_exists_file(storage, Locator(2, c, 0, TRUE))


ResponseIsLinked(sto, h, c, i) ==
    LET contributions == sto.rounds[h].chunks[c].contributions
        response == Locator(h, c, i, FALSE)
        challenge == contributions[i].vloc IN
    /\ contributions[i + 1].uloc = response
    /\ contributions[i].verified
    /\ storage_exists_file(sto, response)
    /\ storage_exists_file(sto, challenge)
    /\ Header64(sto.files[response]) = calculate_hash(sto.files[challenge])

\* The verified artifact of contribution i of a chunk is linked to the
\* response it was made from.
ChallengeIsLinked(sto, h, c, i) ==
    LET contributions == sto.rounds[h].chunks[c].contributions
        response == Locator(h, c, i, FALSE)
        next == contributions[i + 1].vloc IN
    /\ storage_exists_file(sto, response)
    /\ storage_exists_file(sto, next)
    /\ FirstBlock(sto.files[next]) = calculate_hash(sto.files[response])

\* C26: the round transcript is hash-chained.  For every contribution above
\* 0 recorded in a round in storage, the first 64 bytes of its response are
\* the hash of the challenge it was locked against, and if it is verified
\* the first 64 bytes of its verified artifact are the hash of its response.
C26_HashChain ==
    \A h \in Heights :
       storage_exists_round(storage, h) =>
          \A c \in Chunks :
             \A i \in 1 .. Len(storage.rounds[h].chunks[c].contributions) - 1 :
                /\ ResponseIsLinked(storage, h, c, i)
                /\ storage.rounds[h].chunks[c].contributions[i + 1].verified =>
                      ChallengeIsLinked(storage, h, c, i)

\* C26 witness: a verification has just been recorded for contribution 1 of
\* a chunk of round 1, whose response and verified artifact are linked.
C26_Witness ==
    /\ last.op = "try_verify"
    /\ last.err = OK
    /\ storage.height = 1
    /\ \E c \in Chunks :
          /\ Len(storage.rounds[1].chunks[c].contributions) = 2
          /\ storage.rounds[1].chunks[c].contributions[2].verified
          /\ ResponseIsLinked(storage, 1, c, 1)
          /\ ChallengeIsLinked(storage, 1, c, 1)


\* A try_contribute or a try_verify of participant p on chunk c.
Submit(op, sto, st, p, c) ==
    IF op = "try_contribute" THEN try_contribute(sto, st, p, c) ELSE try_verify(sto, st, p, c)

SubmitOps == {"try_contribute", "try_verify"}

\* Submissions a and b, both of which succeed in the state, give the same
\* storage (the round and the files) and the same coordinator state (the
\* task buckets) in either order.
Commute(a, b) ==
    LET ra == Submit(a.op, storage, state, a.p, a.c)
        rb == Submit(b.op, storage, state, b.p, b.c)
        rab == Submit(b.op, ra.storage, ra.st, b.p, b.c)
        rba == Submit(a.op, rb.storage, rb.st, a.p, a.c) IN
    (ra.err = OK /\ rb.err = OK) =>
       /\ rab.err = OK
       /\ rba.err = OK
       /\ rab.storage = rba.storage
       /\ rab.st = rba.st

\* C27: for two different chunks whose locks are held, a try_contribute or
\* try_verify on the one and a try_contribute or try_verify on the other
\* that both succeed give the same round and the same task buckets whichever
\* runs first, and neither makes the other fail.
C27_DistinctChunksCommute ==
    \A c1, c2 \in Chunks :
       c1 # c2 =>
          \A p, q \in Participants :
             (/\ storage_exists_round(storage, storage.height)
              /\ storage.rounds[storage.height].chunks[c1].lock_holder = p
              /\ storage.rounds[storage.height].chunks[c2].lock_holder = q)
             => \A opa, opb \in SubmitOps :
                   Commute([op |-> opa, p |-> p, c |-> c1], [op |-> opb, p |-> q, c |-> c2])

\* C27 witness: a verifier holds the lock of one chunk and a contributor that
\* of another, the verification and the contribution both succeed, and after
\* the two the one chunk has a verified contribution and the other an
\* unverified one.
C27_Witness ==
    \E c1, c2 \in Chunks, p \in Verifiers, q \in Contributors :
       /\ c1 # c2
       /\ storage.height = 1
       /\ storage.rounds[1].chunks[c1].lock_holder = p
       /\ storage.rounds[1].chunks[c2].lock_holder = q
       /\ try_verify(storage, state, p, c1).err = OK
       /\ try_contribute(storage, state, q, c2).err = OK
       /\ LET r == try_verify(storage, state, p, c1)
              n == try_contribute(r.storage, r.st, q, c2) IN
          /\ n.err = OK
          /\ current_contribution(n.storage.rounds[1].chunks[c1]).verified
          /\ ~current_contribution(n.storage.rounds[1].chunks[c2]).verified
          /\ n.storage.rounds[1].chunks[c2].lock_holder = None


\* The coordinator state with task t of p moved from disposing to disposed
\* and nothing else changed.
Disposed(st, p, t) ==
    [st EXCEPT !.info[p].disposing = @ \ {t}, !.info[p].disposed = @ \cup {t}]

\* The coordinator state in which the pending task of p on chunk c has been
\* marked for disposal.
MarkedDisposing(st, p, c) ==
    LET t == lookup_pending_task(st, p, c) IN
    [st EXCEPT !.info[p].pending = @ \ {t}, !.info[p].disposing = @ \cup {t}]

\* The disposing path of try_contribute (resp. try_verify) on state st: the
\* call returns Ok, the task is in disposed, the one file of the task is
\* deleted, and the rest of storage, the rounds with their contributions
\* and locks included, is as before.
DisposesTask(st, p, c) ==
    LET t == lookup_disposing_task(st, p, c)
        r == IF is_contributor(p) THEN try_contribute(storage, st, p, c)
                                   ELSE try_verify(storage, st, p, c)
        file == IF is_contributor(p)
                THEN Locator(storage.height, c, t[2], FALSE)
                ELSE NextChallengeOfTask(CurrentRound, c, t[2]) IN
    /\ r.err = OK
    /\ r.st = Disposed(st, p, t)
    /\ ~storage_exists_file(r.storage, file)
    /\ r.storage = storage_remove_file(storage, file)
    /\ r.storage.rounds = storage.rounds
    /\ is_contributor(p) => try_contribute_locator(storage, st, p, c) = file

\* C28: when the task of p for chunk c is in the disposing bucket of p, a
\* participant of the current round, try_contribute(p, c) (resp.
\* try_verify(p, c)) moves that task to disposed, deletes the response file
\* (resp. the next challenge file) of the task, returns the path of the
\* deleted response (resp. unit), and leaves the round unchanged.  The
\* contributor's case is taken on the states in which a pending task of the
\* contributor is marked for disposal.
C28_DisposingTask ==
    \A p \in state.current, c \in Chunks :
       /\ lookup_disposing_task(state, p, c) # NoTask => DisposesTask(state, p, c)
       /\ (is_contributor(p) /\ lookup_pending_task(state, p, c) # NoTask) =>
             DisposesTask(MarkedDisposing(state, p, c), p, c)

\* C28 witness: a verifier of the current round has just disposed of a task
\* with try_verify, its next challenge file is not in storage, and a
\* contributor of the round has a pending task.
C28_Witness ==
    /\ last.op = "try_verify"
    /\ last.err = OK
    /\ last.participant \in state.current
    /\ \E t \in state.info[last.participant].disposed :
          /\ t[1] = last.chunk_id
          /\ ~storage_exists_file(storage, NextChallengeOfTask(CurrentRound, t[1], t[2]))
    /\ \E q \in CurrentContributors(state) : state.info[q].pending # {}


\* C30: a successful add_contribution(c, p) requires p to be a contributor
\* of the current round holding the lock of chunk c; otherwise it returns
\* UnauthorizedChunkContributor or ChunkNotLockedOrByWrongParticipant and
\* changes nothing.  After a success chunk c is unlocked, its current
\* contribution id is one higher than before, and the new contribution is
\* unverified with p as its contributor.
C30_AddContribution ==
    (storage.height >= 1 /\ storage_exists_round(storage, storage.height)) =>
       \A p \in Participants, c \in Chunks :
          LET a == add_contribution(storage, c, p)
              before == CurrentRound.chunks[c]
              after == a.storage.rounds[storage.height].chunks[c] IN
          /\ ~round_is_contributor(CurrentRound, p) =>
                a.err = "UnauthorizedChunkContributor"
          /\ (round_is_contributor(CurrentRound, p) /\ before.lock_holder # p) =>
                a.err = "ChunkNotLockedOrByWrongParticipant"
          /\ a.err # OK => a.storage = storage
          /\ a.err = OK =>
                /\ round_is_contributor(CurrentRound, p)
                /\ before.lock_holder = p
                /\ after.lock_holder = None
                /\ current_contribution_id(after) = current_contribution_id(before) + 1
                /\ a.id = current_contribution_id(after)
                /\ ~current_contribution(after).verified
                /\ current_contribution(after).contributor = p
                /\ SubSeq(after.contributions, 1, Len(before.contributions)) = before.contributions

\* C30 witness: a contributor has just added a contribution to a chunk of
\* round 1, which is unlocked and whose current contribution is the
\* contributor's, unverified, and a second add_contribution by the
\* contributor to the chunk, which it no longer holds, is refused.
C30_Witness ==
    /\ last.op = "try_contribute"
    /\ last.err = OK
    /\ storage.height = 1
    /\ Holder(last.chunk_id) = None
    /\ ~current_contribution(CurrentRound.chunks[last.chunk_id]).verified
    /\ current_contribution(CurrentRound.chunks[last.chunk_id]).contributor = last.participant
    /\ add_contribution(storage, last.chunk_id, last.participant).err
          = "ChunkNotLockedOrByWrongParticipant"


\* Participant p holds the lock of chunk c and has gone silent.
Abandoned(p, c) == p \in Silent /\ Holder(c) = p

\* The participant is dropped from the round.
Dropped(p) == p \in state.dropped /\ p \notin state.current

\* Chunk c is unlocked: no participant is refused because of its lock.
Unlocked(c) ==
    /\ Holder(c) = None
    /\ \A q \in Participants : try_lock_chunk(storage, c, q).err # "ChunkLockAlreadyAcquired"

VerifiedOutput(c, i) ==
    IF i = expected_number_of_contributions(CurrentRound) - 1
    THEN Locator(storage.height + 1, c, 0, TRUE)
    ELSE Locator(storage.height, c, i, TRUE)

\* try_verify(p, c) on a pending task whose verification succeeds records
\* the verified output of the contribution at locator file.
RecordsVerifiedAt(p, c, file) ==
    LET r == try_verify(storage, state, p, c)
        id == current_contribution_id(CurrentRound.chunks[c])
        recorded == r.storage.rounds[storage.height].chunks[c].contributions[id + 1] IN
    /\ lookup_pending_task(state, p, c)[2] = id
    /\ recorded.verified
    /\ recorded.vloc = file
    /\ storage_exists_file(r.storage, file)

\* C31: the locator of the verified output is the same in every place.  For
\* a verifier p and a chunk c of the current round: the file that p, holding
\* the lock of c, is to write (run_verification), the locator that a
\* successful try_verify records in the round (verify_contribution), and the
\* file that the disposing path and the failure path of try_verify delete,
\* are all ContributionFile(h+1, c, 0, true) when the contribution of the
\* task is the final one of the chunk (its id is the expected number of
\* contributions minus one) and ContributionFile(h, c, id, true) otherwise.
C31_VerifiedLocator ==
    (storage.height >= 1 /\ HasRound) =>
       \A p \in Verifiers, c \in Chunks :
          LET r == try_verify(storage, state, p, c)
              disposing == lookup_disposing_task(state, p, c)
              pending == lookup_pending_task(state, p, c)
              id == current_contribution_id(CurrentRound.chunks[c]) IN
          /\ Holder(c) = p =>
                /\ OutputOf(CurrentRound, c) = VerifiedOutput(c, id)
                /\ NextChallengeOf(CurrentRound, storage.height, c) = VerifiedOutput(c, id)
          /\ (p \in state.current /\ disposing # NoTask) =>
                r.storage = storage_remove_file(storage, VerifiedOutput(c, disposing[2]))
          /\ (p \in state.current /\ disposing = NoTask /\ pending # NoTask) =>
                /\ r.err = OK => RecordsVerifiedAt(p, c, VerifiedOutput(c, pending[2]))
                /\ r.err \notin {OK, "panic"} =>
                      r.storage = storage_remove_file(storage, VerifiedOutput(c, pending[2]))

\* C31 witness: a verifier has just verified the final contribution of a
\* chunk, recorded at the first verified locator of the next round, and
\* another chunk of the round has a verified contribution that is not its
\* final one, recorded in the current round.
C31_Witness ==
    /\ last.op = "try_verify"
    /\ last.err = OK
    /\ storage.height >= 1
    /\ HasRound
    /\ LET c == last.chunk_id
           id == current_contribution_id(CurrentRound.chunks[c]) IN
       /\ id >= 1
       /\ id = expected_number_of_contributions(CurrentRound) - 1
       /\ current_contribution(CurrentRound.chunks[c]).verifier = last.participant
       /\ current_contribution(CurrentRound.chunks[c]).vloc = Locator(storage.height + 1, c, 0, TRUE)
    /\ \E d \in Chunks, i \in 1 .. 2 :
          /\ i < expected_number_of_contributions(CurrentRound) - 1
          /\ Len(CurrentRound.chunks[d].contributions) > i
          /\ CurrentRound.chunks[d].contributions[i + 1].verified
          /\ CurrentRound.chunks[d].contributions[i + 1].vloc = Locator(storage.height, d, i, TRUE)


\* The sub-steps of a tick in the order of the statement.
SubSteps ==
    <<"update_round_metrics", "update_queue", "update_current_contributors",
      "update_current_verifiers", "update_dropped_participants",
      "update_banned_participants", "try_aggregate", "try_advance">>

\* What a tick has reached between two sub-steps: the error, the storage
\* and the state so far, and whether the round was finished at the end of
\* the first block.
Reached(err, sto, st, finished) ==
    [err |-> err, storage |-> sto, st |-> st, finished |-> finished]

\* A sub-step that changes the state to st and saves it.
SavedSubStep(r, st) == Reached(OK, state_save(st, r.storage), st, r.finished)

\* The sub-step of the dropped participants: d is what
\* update_dropped_participants returns, each justification is handled and
\* the state is saved.
DroppedSubStep(r, d) ==
    LET j == ProcessJustifications(r.storage, d.justifications) IN
    IF j.err # OK THEN Reached(j.err, j.storage, d.st, r.finished)
    ELSE Reached(OK, state_save(d.st, j.storage), d.st, r.finished)

\* The sub-step that called a facade operation which returned a.
CalledSubStep(r, a, saves) ==
    IF a.err # OK THEN Reached(a.err, a.storage, a.st, r.finished)
    ELSE Reached(OK, IF saves THEN state_save(a.st, a.storage) ELSE a.storage, a.st, r.finished)

\* One sub-step of a tick run on what the sub-steps before it left.
SubStep(name, r, timed_out, aggregation_runs) ==
    CASE name = "update_current_contributors" ->
            SavedSubStep(r, state_update_current_contributors(r.st))
      [] name = "update_current_verifiers" ->
            SavedSubStep(r, state_update_current_verifiers(r.st))
      [] name = "update_dropped_participants" ->
            DroppedSubStep(r, state_update_dropped_participants(r.st, timed_out))
      [] name = "update_banned_participants" ->
            Reached(OK, state_save(r.st, r.storage), r.st, is_current_round_finished(r.st))
      [] name = "try_aggregate" ->
            IF r.finished /\ ~is_current_round_aggregated(r.st)
            THEN CalledSubStep(r, try_aggregate(r.storage, r.st, aggregation_runs), TRUE)
            ELSE r
      [] name = "try_advance" ->
            IF r.finished /\ is_current_round_aggregated(r.st)
                          /\ is_precommit_next_round_ready(r.st)
            THEN CalledSubStep(r, try_advance(r.storage, r.st, NumberOfChunks), FALSE)
            ELSE r
      [] OTHER -> SavedSubStep(r, r.st)

\* The sub-steps run one after the other; the first error ends the tick.
RECURSIVE InOrder(_, _, _, _)
InOrder(names, r, timed_out, aggregation_runs) ==
    IF names = <<>> \/ r.err # OK THEN r
    ELSE InOrder(Tail(names), SubStep(Head(names), r, timed_out, aggregation_runs),
                 timed_out, aggregation_runs)

\* The tick and the sub-steps in order leave the same result.
TickIsInOrder(u, r) == u.err = r.err /\ u.storage = r.storage /\ u.st = r.st

\* C32: a tick of update() is its sub-steps run in this order, each on what
\* the one before left and the first error ending the tick: round metrics,
\* queue, current contributors, current verifiers, dropped participants
\* with process_coordinator_state_change on each justification, banned
\* participants, try_aggregate if the round is finished and not aggregated,
\* try_advance if the round is aggregated and the precommit is ready.  A
\* tick on a finished round that is not aggregated, whose aggregation and
\* advance succeed, leaves the round file of the round and the next height.
C32_TickOrder ==
    \A timed_out \in TimedOut, aggregation_runs \in BOOLEAN :
       LET u == update(storage, state, timed_out, aggregation_runs, NumberOfChunks) IN
       /\ TickIsInOrder(u, InOrder(SubSteps, Reached(OK, storage, state, FALSE),
                                   timed_out, aggregation_runs))
       /\ (/\ u.err = OK
           /\ is_current_round_finished(state)
           /\ ~is_current_round_aggregated(state)
           /\ storage.height \notin storage.round_files
           /\ u.storage.height # storage.height) =>
             /\ u.storage.height = storage.height + 1
             /\ storage.height \in u.storage.round_files

\* C32 witness: the last verification has finished round 1, which has no
\* round file, and a tick on this state runs try_aggregate and then
\* try_advance: it returns Ok and leaves the round file of round 1 and
\* round 2 as the current round.
C32_Witness ==
    /\ last.op = "try_verify"
    /\ last.err = OK
    /\ storage.height = 1
    /\ 1 \notin storage.round_files
    /\ is_current_round_finished(UpdateParticipants(state))
    /\ ~is_current_round_aggregated(state)
    /\ LET u == update(storage, state, {}, TRUE, NumberOfChunks) IN
       /\ u.err = OK
       /\ 1 \in u.storage.round_files
       /\ u.storage.height = 2
       /\ storage_exists_round(u.storage, 2)
       /\ u.st.height = 2


\* next_round called in the current state with any roster and any outcome
\* of the initialization: a success has inserted the round of the next
\* height and raised the height by one, a failure leaves the height.
NextRoundRaisesHeight ==
    \A contributors \in SUBSET Contributors, verifiers \in SUBSET Verifiers,
       initialized \in 0 .. NumberOfChunks :
       LET n == next_round(storage, contributors, verifiers, initialized) IN
       IF n.err = OK
       THEN /\ n.height = storage.height + 1
            /\ n.storage.height = storage.height + 1
            /\ ~storage_exists_round(storage, storage.height + 1)
            /\ storage_exists_round(n.storage, storage.height + 1)
       ELSE n.storage.height = storage.height

\* Aggregation called in the current state leaves the height.
AggregationKeepsHeight ==
    \A aggregation_runs \in BOOLEAN :
       /\ aggregate_contributions(storage, aggregation_runs).storage.height = storage.height
       /\ try_aggregate(storage, state, aggregation_runs).storage.height = storage.height

\* A step that changes the height is a try_advance, called directly or by a
\* tick, that returned Ok; the height is one more and its round is there.
HeightStep ==
    storage'.height # storage.height =>
       /\ last'.op \in {"try_advance", "update"}
       /\ last'.err = OK
       /\ storage'.height = storage.height + 1
       /\ storage_exists_round(storage', storage'.height)
       /\ storage'.rounds[storage'.height].height = storage'.height

\* C33: the round height in storage changes only through a successful
\* next_round, called by try_advance: it goes up by exactly one, the round
\* of the new height is in storage when the height is raised, it never goes
\* down, and aggregate_contributions and try_aggregate leave it unchanged.
C33_RoundHeight ==
    [][/\ storage.height < MaxHeight => NextRoundRaisesHeight
       /\ AggregationKeepsHeight
       /\ HeightStep]_vars

\* C33 witness: round 1 has been aggregated at height 1, and try_advance has
\* then raised the height to 2 with round 2 in storage.
C33_Witness ==
    /\ last.op \in {"try_advance", "update"}
    /\ last.err = OK
    /\ storage.height = 2
    /\ 1 \in storage.round_files
    /\ storage_exists_round(storage, 2)
    /\ storage_exists_round(storage, 1)


\* Thread t holds the first lock of its operation and waits for the second
\* one, name, which another thread holds.
WaitsFor(t, name) ==
    /\ pc[t].at = "first"
    /\ IsAuthorized(t)
    /\ LockOrder(pc[t].op)[2] = name
    /\ Owner(name) \notin {None, t}

\* Thread t holds the state lock and waits for the storage lock while thread
\* u holds the storage lock and waits for the state lock.
Deadlocked(t, u) ==
    /\ state_lock = t
    /\ WaitsFor(t, "storage")
    /\ storage_lock = u
    /\ WaitsFor(u, "state")

\* C34: no interleaving of concurrent facade calls deadlocks: in no
\* reachable state does one thread hold the state lock and wait for the
\* storage lock while another holds the storage lock and waits for the state
\* lock.
C34_NoDeadlock == \A t, u \in Threads : ~Deadlocked(t, u)

\* C34, its case: a contributor in try_contribute holds the state lock and
\* waits for the storage lock, which a thread in try_lock or in the first
\* block of update holds while it waits for the state lock; neither call
\* can return.
C34_Witness ==
    \E t \in Contributors, u \in Threads :
       /\ pc[t].op = "try_contribute"
       /\ pc[u].op \in {"try_lock", "update"}
       /\ Deadlocked(t, u)
       /\ ~ENABLED AcquireSecond(t)
       /\ ~ENABLED AcquireSecond(u)
       /\ ~ENABLED ReturnUnauthorized(t)


\* The rosters that try_advance passes to next_round: at least one
\* contributor and one verifier.
Rosters == ((SUBSET Contributors) \ {{}}) \X ((SUBSET Verifiers) \ {{}})

\* The round of the current height, h >= 1, has no round file.
NotAggregatedInStorage == storage.height >= 1 /\ storage.height \notin storage.round_files

\* C35: for h >= 1 the round height becomes h+1 only in a state where
\* RoundFile(h) exists, so every round below the current one has its round
\* file; while the current round has no round file, next_round fails with
\* RoundFileMissing and changes nothing in storage, and try_advance leaves
\* the height and the rounds as they are.
C35_AdvanceNeedsRoundFile ==
    [][/\ \A h \in 1 .. MaxHeight : h < storage.height => h \in storage.round_files
       /\ (storage.height >= 1 /\ storage'.height = storage.height + 1) =>
             storage.height \in storage'.round_files
       /\ (NotAggregatedInStorage /\ storage.height < MaxHeight) =>
             /\ \A r \in Rosters :
                   LET n == next_round(storage, r[1], r[2], NumberOfChunks) IN
                   /\ n.err = "RoundFileMissing"
                   /\ n.storage = storage
             /\ LET a == try_advance(storage, state, NumberOfChunks) IN
                /\ a.err # OK
                /\ a.storage.height = storage.height
                /\ a.storage.rounds = storage.rounds
                /\ a.storage.round_files = storage.round_files
                /\ a.storage.files = storage.files]_vars

\* C35 witness: the last verification has completed round 1, which has not
\* been aggregated; next_round called on this state with a roster is
\* refused with RoundFileMissing and try_advance is refused too; the height
\* is 1 and round 2 is not in storage.
C35_Witness ==
    /\ last.op = "try_verify"
    /\ last.err = OK
    /\ storage.height = 1
    /\ 1 \notin storage.round_files
    /\ ~storage_exists_round(storage, 2)
    /\ round_is_complete(CurrentRound)
    /\ \A c \in Chunks : storage_exists_file(storage, Locator(2, c, 0, TRUE))
    /\ next_round(storage, {"C1"}, {"V1"}, NumberOfChunks).err = "RoundFileMissing"
    /\ try_advance(storage, state, NumberOfChunks).err # OK


\* The coordinator state reports the current round as aggregated exactly
\* when its round file is in storage.
AggregatedIffRoundFile ==
    is_current_round_aggregated(state) <=> storage.height \in storage.round_files

\* The state is marked as aggregating although no aggregation is running:
\* between two facade operations none is.
MarkedAggregating == state.aggregation = "aggregating"

\* C36: between facade operations, for the current round h >= 1 the
\* coordinator state reports the round as aggregated if and only if
\* RoundFile(h) is in storage, and the state is not left marked as
\* aggregating: a try_aggregate that returned an error has left neither the
\* round file without the aggregated mark nor the aggregating mark.
C36_AggregatedMatchesRoundFile ==
    storage.height >= 1 => (AggregatedIffRoundFile /\ ~MarkedAggregating)

\* C36, its case: try_aggregate has returned an error on a finished round
\* and has left the state marked as aggregating, without a round file; a
\* further try_aggregate on this state fails whether or not the aggregation
\* routine would succeed.
C36_Witness ==
    /\ last.op \in {"try_aggregate", "update"}
    /\ last.err # OK
    /\ storage.height >= 1
    /\ is_current_round_finished(state)
    /\ MarkedAggregating
    /\ storage.height \notin storage.round_files
    /\ \A aggregation_runs \in BOOLEAN :
          try_aggregate(storage, state, aggregation_runs).err # OK


\* Storage sto differs from the current storage, as to the round states and
\* the round files, at most in the round state of the current height.
WritesCurrentRoundOnly(sto) ==
    /\ \A h \in Heights : h # storage.height => sto.rounds[h] = storage.rounds[h]
    /\ sto.round_files = storage.round_files
    /\ sto.height = storage.height

\* The rounds below the current height, with their round files, are in the
\* next state as they are now.
PastRoundsKept ==
    \A h \in Heights :
       h < storage.height =>
          /\ storage'.rounds[h] = storage.rounds[h]
          /\ h \in storage.round_files <=> h \in storage'.round_files

\* C37: try_lock_chunk, add_contribution, verify_contribution and
\* process_coordinator_state_change write the round state of the current
\* height and no other; once the height has advanced past h, no lock,
\* contribution, verification, drop, ban, update or any other step of the
\* facade changes or removes RoundState(h) or RoundFile(h).
C37_PastRoundsFrozen ==
    [][/\ PastRoundsKept
       /\ storage.height >= 2 =>
             /\ \A p \in Participants, c \in Chunks :
                   /\ WritesCurrentRoundOnly(try_lock_chunk(storage, c, p).storage)
                   /\ WritesCurrentRoundOnly(add_contribution(storage, c, p).storage)
                   /\ WritesCurrentRoundOnly(verify_contribution(storage, c, p).storage)
             /\ last'.op \in {"try_lock", "try_contribute", "try_verify",
                              "drop_participant", "ban_participant"} =>
                   WritesCurrentRoundOnly(storage')]_vars

\* C37 witness: at height 2 a verifier has just verified a contribution of
\* round 2 under a lock taken in round 2, and round 1 is in storage with its
\* round file and all its contributions verified.
C37_Witness ==
    /\ last.op = "try_verify"
    /\ last.err = OK
    /\ storage.height = 2
    /\ 1 \in storage.round_files
    /\ storage_exists_round(storage, 1)
    /\ round_is_complete(storage.rounds[1])
    /\ \A c \in Chunks : storage.rounds[1].chunks[c].lock_holder = None
    /\ \E c \in Chunks :
          /\ Len(CurrentRound.chunks[c].contributions) >= 2
          /\ CurrentRound.chunks[c].contributions[2].verified


\* A file that is empty or shorter than 64 bytes.
Malformed == {EmptyFile, ShortFile}

\* Participant p holds the lock of chunk c with its task pending, and the
\* file it was to write is in storage with the given content.
Uploaded(p, c, content) ==
    /\ p \in state.current
    /\ Holder(c) = p
    /\ lookup_disposing_task(state, p, c) = NoTask
    /\ lookup_pending_task(state, p, c) # NoTask
    /\ storage.files[OutputOf(CurrentRound, c)] = content

\* The call with which p reports its work on chunk c returns an error value:
\* it returns, and not Ok.
ReturnsError(p, c) ==
    LET r == IF is_contributor(p) THEN try_contribute(storage, state, p, c)
                                   ELSE try_verify(storage, state, p, c) IN
    r.err \notin {OK, "panic"}

\* C38: a malformed upload never crashes the coordinator: when the uploaded
\* next challenge is empty or shorter than 64 bytes, or the uploaded response
\* is, try_verify (resp. try_contribute) returns an error value, and the
\* locks are released without being poisoned, so that later calls run.
C38_MalformedUploadIsRefused ==
    /\ ~poisoned
    /\ (storage.height >= 1 /\ HasRound) =>
          \A p \in Participants, c \in Chunks, content \in Malformed :
             Uploaded(p, c, content) => ReturnsError(p, c)

\* C38, its case: a verifier that held the lock of a chunk uploaded an empty
\* next challenge and called try_verify; the call panicked while it held
\* both locks, which are poisoned: no facade call runs any more.
C38_Witness ==
    /\ poisoned
    /\ last.op = "try_verify"
    /\ last.err = "panic"
    /\ is_verifier(last.participant)
    /\ Uploaded(last.participant, last.chunk_id, EmptyFile)
    /\ ~ENABLED Next


\* The files of contribution k of chunk c of round are in storage sto: its
\* response, which contribution 0 does not have, and its verified output
\* once it is verified.
FilesPresent(sto, round, c, k) ==
    LET contribution == round.chunks[c].contributions[k + 1] IN
    /\ k >= 1 => storage_exists_file(sto, contribution.uloc)
    /\ contribution.verified => storage_exists_file(sto, contribution.vloc)

\* Every contribution recorded in the current round of sto has its files.
RecordedFilesPresent(sto) ==
    storage_exists_round(sto, sto.height) =>
       \A c \in Chunks :
          \A k \in 0 .. (Len(sto.rounds[sto.height].chunks[c].contributions) - 1) :
             FilesPresent(sto, sto.rounds[sto.height], c, k)

ReadyToComplete ==
    /\ ~poisoned
    /\ storage.height >= 1
    /\ storage.height < MaxHeight
    /\ HasRound
    /\ round_is_complete(CurrentRound)
    /\ is_precommit_next_round_ready(state)

\* A tick on storage sto and state st in which nobody times out and the
\* aggregation routine works.
WorkingTick(sto, st) == update(sto, st, {}, TRUE, NumberOfChunks)

\* Ticks in which every routine works complete the transition of the round
\* of height h: after at most two of them the round file of h is in storage
\* and the height is h + 1.
TicksComplete(h) ==
    LET u == WorkingTick(storage, state)
        v == WorkingTick(u.storage, u.st) IN
    \/ h \in u.storage.round_files /\ u.storage.height = h + 1
    \/ h \in v.storage.round_files /\ v.storage.height = h + 1

\* C40: once every chunk of the current round h >= 1 has all its expected
\* contributions verified and the queue holds a contributor and a verifier,
\* repeated ticks of update() aggregate the round and then raise the height
\* to h + 1, also when an earlier tick failed in try_aggregate or
\* try_advance: in every such state, ticks whose routines work complete the
\* transition.
C40_TicksCompleteTheRound == ReadyToComplete => TicksComplete(storage.height)


\* C40 (the state that refutes it): the round is complete and the queue is
\* ready, a tick has just failed in try_aggregate, and from here every tick,
\* whether the aggregation routine works or not, returns an error and leaves
\* storage and state as they are.
C40_Witness ==
    /\ ReadyToComplete
    /\ last.op = "update"
    /\ last.err = "RoundAggregationFailed"
    /\ storage.height \notin storage.round_files
    /\ \A aggregation_runs \in BOOLEAN :
          LET u == update(storage, state, {}, aggregation_runs, NumberOfChunks) IN
          /\ u.err = "RoundAggregationFailed"
          /\ u.storage = storage
          /\ u.st = state

=============================================================================
